---- MODULE Spec2Model ----
(***************************************************************************)
(* State-machine model of the Glitter Bomb front-end particle engine       *)
(* (src/src/view.js): the ParticlePool allocator, the GlitterBombParticles *)
(* session (construction, toggle, start/stop, resize debounce, visibility, *)
(* pointer handlers, destroy) and the frame-throttled animate() loop.      *)
(*                                                                         *)
(* Every method of the source is an operator from a world record to a      *)
(* world record; a world holds the fields of the session object (under     *)
(* their source names) and the pieces of the browser the session talks to  *)
(* (the requestAnimationFrame queue, the timer queue, sessionStorage,      *)
(* document.hidden, performance.now()).  One action per event handler      *)
(* applies the handler's operator to the current world.                    *)
(***************************************************************************)
EXTENDS Integers, Sequences, FiniteSets, TLC

(***************************************************************************)
(* Time.  performance.now() is modelled as an integer clock whose unit is  *)
(* 1/UnitsPerFrame of a 60 Hz frame, so that FRAME_DURATION (1000/60 ms),  *)
(* the 150 ms rapid-resize window and the 250 ms debounce delay are all    *)
(* whole numbers of units.                                                 *)
(***************************************************************************)
TARGET_FPS == 60

UnitsPerFrame == 2

UnitsPerSecond == TARGET_FPS * UnitsPerFrame

Ms(m) == (m * UnitsPerSecond) \div 1000

FRAME_DURATION == Ms(1000) \div TARGET_FPS

RAPID_RESIZE_WINDOW == Ms(150)

RESIZE_DEBOUNCE_DELAY == Ms(250)

(***************************************************************************)
(* Bounds of the model.  Particle counts, pool head-room, burst sizes and  *)
(* lifetimes are the program's quantities scaled down.                     *)
(***************************************************************************)
MaxFrames == 1

MaxGrowth == 1

FieldCount == 1

MaxSparkles == 1

MaxParticles == 1

FieldHeadroom == 0

MinFieldPool == 1

TrailHeadroom == 0

MinTrailPool == 1

FieldBurst == 1

SnowBurst == 1

TrailBurst == 1

EmojiBurst == 1

ExplosionLifeInit == 2

TrailLifeFrames == 1

LaunchInterval == 2

MaxRocketSpeed == 2

MaxRocketStartY == 1

\* Math.random() returns one of 0/RandomDen .. (RandomDen-1)/RandomDen.
RandomDen == 2

\* The viewport (window.innerWidth x the visual viewport's height), in pixels.
ViewWidth == 24

ViewHeight == 2

\* fieldParticleSize: the largest flake or leaf.
FieldParticleSize == 3

\* Fall physics in units of the per-tick gravity: terminal velocities run
\* from MinFallSpeed up by FallSpeedRange with the size of the entity, and a
\* respawned entity starts up to RespawnSpread above the top edge.
Gravity == 1

MinFallSpeed == 1

FallSpeedRange == 2

RespawnSpread == 2

MAX_ROCKETS == 12

Max(a, b) == IF a >= b THEN a ELSE b

Min(a, b) == IF a <= b THEN a ELSE b

Abs(n) == IF n < 0 THEN 0 - n ELSE n

Last(s) == s[Len(s)]

Front(s) == SubSeq(s, 1, Len(s) - 1)

CeilDiv(a, b) == (a + b - 1) \div b

RemoveAt(s, i) == SubSeq(s, 1, i - 1) \o SubSeq(s, i + 1, Len(s))

Range(s) == {s[i] : i \in 1..Len(s)}

(***************************************************************************)
(* ParticlePool.  An entity record is identified by its index in `objects` *)
(* (the heap of records ever created); `pool` is the free list and         *)
(* `activeParticles` the live working set, both arrays of identities.      *)
(***************************************************************************)
\* Of an entity's fields the model keeps its position, its vertical velocity
\* and size (read by the fall of snow flakes and leaves), its opacity and
\* its life; fallSpeed and baseOpacity are undefined (0) until a spawn sets
\* them.
createParticleObject ==
    [x |-> 0, y |-> 0, vy |-> 0, size |-> 0, opacity |-> 0,
     fallSpeed |-> 0, baseOpacity |-> 0,
     isExplosion |-> FALSE, explosionLife |-> 0, birthTime |-> 0,
     maxLife |-> 0, active |-> FALSE]

NewParticlePool(initialSize) ==
    [pool            |-> [i \in 1..initialSize |-> i],
     activeParticles |-> <<>>,
     objects         |-> [i \in 1..initialSize |-> createParticleObject]]

\* acquire() that hands out the top of the free list without popping it.
acquire_keepsFree(P) ==
    LET fromPool == Len(P.pool) > 0
        id       == IF fromPool THEN Last(P.pool) ELSE Len(P.objects) + 1
        objs     == IF fromPool THEN P.objects
                    ELSE Append(P.objects, createParticleObject)
    IN  [pool            |-> P.pool,
         activeParticles |-> Append(P.activeParticles, id),
         objects         |-> [objs EXCEPT ![id].active = TRUE]]

\* acquire(): pop the free list, or create a record when it is empty; mark
\* the record active and append it to the working set.  The acquired record
\* is Last(result.activeParticles).
acquire(P) ==
    LET fromPool == Len(P.pool) > 0
        id       == IF fromPool THEN Last(P.pool) ELSE Len(P.objects) + 1
        objs     == IF fromPool THEN P.objects
                    ELSE Append(P.objects, createParticleObject)
    IN  [pool            |-> IF fromPool THEN Front(P.pool) ELSE P.pool,
         activeParticles |-> Append(P.activeParticles, id),
         objects         |-> [objs EXCEPT ![id].active = TRUE]]

IndexOf(s, e) ==
    IF \E i \in 1..Len(s) : s[i] = e
    THEN CHOOSE i \in 1..Len(s) : s[i] = e /\ \A j \in 1..(i - 1) : s[j] # e
    ELSE 0

\* release() that forgets to push the record on the free list.
release_leaks(P, id) ==
    [pool            |-> P.pool,
     activeParticles |-> SelectSeq(P.activeParticles, LAMBDA e : e # id),
     objects         |-> [P.objects EXCEPT ![id].active = FALSE]]

\* release() that fills the hole with the last record of the working set.
release_swaps(P, id) ==
    LET index == IndexOf(P.activeParticles, id)
    IN  [pool            |-> Append(P.pool, id),
         activeParticles |-> IF index > 0
                             THEN Front([P.activeParticles EXCEPT
                                            ![index] = Last(P.activeParticles)])
                             ELSE P.activeParticles,
         objects         |-> [P.objects EXCEPT ![id].active = FALSE]]

\* release(particle): splice the record out of the working set when it is
\* there, clear its flag and push it on the free list.
release(P, id) ==
    LET index == IndexOf(P.activeParticles, id)
    IN  [pool            |-> Append(P.pool, id),
         activeParticles |-> IF index > 0 THEN RemoveAt(P.activeParticles, index)
                             ELSE P.activeParticles,
         objects         |-> [P.objects EXCEPT ![id].active = FALSE]]

\* releaseAll() that pops one record only.
releaseAll_once(P) ==
    IF Len(P.activeParticles) > 0
    THEN LET id == Last(P.activeParticles)
         IN  [pool            |-> Append(P.pool, id),
              activeParticles |-> Front(P.activeParticles),
              objects         |-> [P.objects EXCEPT ![id].active = FALSE]]
    ELSE P

\* releaseAll(): pop the working set until it is empty.
RECURSIVE releaseAll(_)
releaseAll(P) ==
    IF Len(P.activeParticles) > 0
    THEN LET id == Last(P.activeParticles)
         IN  releaseAll([pool            |-> Append(P.pool, id),
                         activeParticles |-> Front(P.activeParticles),
                         objects         |-> [P.objects EXCEPT ![id].active = FALSE]])
    ELSE P

getActive(P) == P.activeParticles

getPoolSize(P) == Len(P.pool)

getActiveCount(P) == Len(P.activeParticles)

\* Set fields of the record acquired last.
SetLast(P, fields) ==
    LET id == Last(P.activeParticles)
    IN  [P EXCEPT !.objects[id] =
            [f \in DOMAIN P.objects[id] |->
                IF f \in DOMAIN fields THEN fields[f] ELSE P.objects[id][f]]]

(***************************************************************************)
(* The world: the session object (`self`, fields under their source        *)
(* names), the browser around it and a record of what the last handler     *)
(* did.  Handles (animationFrameId, resizeDebounceTimer) are positive      *)
(* integers, 0 is null.  `attributes` are the block's attributes as the     *)
(* editor holds them; only the editor changes them.                        *)
(***************************************************************************)
VARIABLES self, browser, ghost, env, attributes

vars == <<self, browser, ghost, env, attributes>>

World == [self |-> self, browser |-> browser, ghost |-> ghost]

\* Math.random() outside a handler: no stream is pending.
NoRandom == [seq |-> <<0>>, pos |-> 0]

Commit(W) ==
    /\ self' = W.self
    /\ browser' = [W.browser EXCEPT !.random = NoRandom]
    /\ ghost' = W.ghost
    /\ UNCHANGED <<env, attributes>>

FieldStyles ==
    {"glitter", "pride-confetti", "love-bomb", "snow", "fireworks", "autumn-leaves"}

\* Percentages and opacities are fixed-point numbers over OpacityScale.
OpacityScale == 100 * 100

\* A configuration record: the fields the engine reads after construction.
\* Counts and durations are the scaled-down host values.
(***************************************************************************)
(* The strengths of the field.  A data attribute is absent (<<>>) or holds *)
(* one number, written in hundredths; a parsed number is NaN or a value.   *)
(***************************************************************************)
DEFAULT_MOUSE_ATTRACTION == 50

DEFAULT_SPREAD_STRENGTH == 30

NaN == [nan |-> TRUE, value |-> 0]

Number(n) == [nan |-> FALSE, value |-> n]

\* parseFloat(attribute): NaN for an absent attribute (undefined).
parseFloat(attribute) ==
    IF attribute = <<>> THEN NaN ELSE Number(attribute[1])

\* A number in a boolean context: NaN and 0 are false.
Falsy(x) == x.nan \/ x.value = 0

NoStrengths ==
    [fieldMouseAttraction |-> <<>>, fieldSpreadStrength |-> <<>>,
     fieldParticleStyle |-> ""]

\* dataset.fieldParticleStyle || 'glitter'
fieldParticleStyleFrom(dataset) ==
    IF dataset.fieldParticleStyle = "" THEN "glitter"
    ELSE dataset.fieldParticleStyle

\* A text of the host or of the editor is the sequence of its characters; the
\* name of a style stands as one of them.
Text(name) == <<name>>

\* The attributes of a block as inserted: the values the render callback
\* falls back to.
DefaultAttributes ==
    [fieldMouseAttraction |-> DEFAULT_MOUSE_ATTRACTION,
     fieldSpreadStrength  |-> DEFAULT_SPREAD_STRENGTH,
     fieldParticleStyle   |-> Text("glitter")]

\* dataset.fieldMouseAttraction !== undefined ? parseFloat(...) : 0.5
fieldMouseAttractionFrom(dataset) ==
    IF dataset.fieldMouseAttraction # <<>>
    THEN parseFloat(dataset.fieldMouseAttraction).value
    ELSE DEFAULT_MOUSE_ATTRACTION

\* parseFloat(dataset.fieldSpreadStrength) || 0.3
fieldSpreadStrengthFrom(dataset) ==
    IF Falsy(parseFloat(dataset.fieldSpreadStrength))
    THEN DEFAULT_SPREAD_STRENGTH
    ELSE parseFloat(dataset.fieldSpreadStrength).value

Config(mode, style, fieldClick, sprinkleStyle, sprinkleClick, mobile) ==
    [experienceMode         |-> mode,
     fieldParticleStyle     |-> style,
     fieldClickExplosion    |-> fieldClick,
     sprinkleStyle          |-> sprinkleStyle,
     sprinkleClickExplosion |-> sprinkleClick,
     isMobile               |-> mobile,
     displayBehavior        |-> "compact",
     fieldParticleSize      |-> FieldParticleSize,
     \* a fireworks burst holds floor(count / 4) sparkles
     fieldParticleCount     |-> IF mode = "particle-field" /\ style = "fireworks"
                                THEN 4 * MaxSparkles ELSE FieldCount,
     maxParticles           |-> MaxParticles,
     \* the ticks between launches, from fieldMouseAttraction
     launchInterval         |-> LaunchInterval,
     animationDuration      |-> TrailLifeFrames * FRAME_DURATION,
     particleOpacity        |-> (9 * OpacityScale) \div 10,
     \* the multiplier the field draw applies to every opacity
     fieldParticleOpacity   |-> (8 * OpacityScale) \div 10,
     \* the block's data attributes of the two strengths and what the
     \* constructor makes of them
     dataset                |-> [NoStrengths EXCEPT !.fieldParticleStyle = style],
     fieldMouseAttraction   |-> fieldMouseAttractionFrom(NoStrengths),
     fieldSpreadStrength    |-> fieldSpreadStrengthFrom(NoStrengths)]

FieldConfigs ==
    {Config("particle-field", st, TRUE, "particles", TRUE, FALSE) : st \in FieldStyles}
    \cup {Config("particle-field", "glitter", FALSE, "particles", TRUE, FALSE)}

TrailConfigs ==
    {Config("sprinkle-trail", "glitter", FALSE, "particles", click, FALSE) :
        click \in BOOLEAN}

MobileConfigs == {Config("particle-field", "glitter", TRUE, "particles", TRUE, TRUE)}

Configs == FieldConfigs \cup TrailConfigs \cup MobileConfigs

\* Ghost record: what the handler that ran last did, in order (`log`), and
\* the observations a run may switch on: `counting` counts physics updates
\* and watches the spacing of ticks, `tracking` remembers when the tab was
\* last hidden and shown again.
Note(W, what) == [W EXCEPT !.ghost.log = Append(@, what)]

Begin(W) == [W EXCEPT !.ghost.log = <<>>]

(***************************************************************************)
(* Math.random().  The numbers the calls of one handler return are a       *)
(* stream fixed when the handler starts, read cyclically; a draw is the    *)
(* numerator k of the value k/RandomDen.                                   *)
(***************************************************************************)
\* The value the n-th call from now returns, and the world after n calls.
NthRandom(W, n) ==
    LET r == W.browser.random
    IN  r.seq[((r.pos + n - 1) % Len(r.seq)) + 1]

DrawnN(W, n) == [W EXCEPT !.browser.random.pos = @ + n]

\* floor(k/RandomDen * n)
RandomBelow(k, n) == (k * n) \div RandomDen

\* lo% + k/RandomDen * span%, as an opacity
OpacityBetween(lo, span, k) ==
    ((lo * RandomDen + span * k) * OpacityScale) \div (100 * RandomDen)

(***************************************************************************)
(* Browser primitives.                                                     *)
(***************************************************************************)
FreshId(used) == CHOOSE i \in 1..(Cardinality(used) + 1) : i \notin used

requestAnimationFrame(W) ==
    LET id == FreshId(W.browser.rafQueue)
    IN  [W EXCEPT !.browser.rafQueue = @ \cup {id},
                  !.self.animationFrameId = id]

cancelAnimationFrame(W, id) == [W EXCEPT !.browser.rafQueue = @ \ {id}]

TimerIds(W) == {t.id : t \in W.browser.timerQueue}

clearTimeout(W, id) ==
    [W EXCEPT !.browser.timerQueue = {t \in @ : t.id # id}]

\* setTimeout(callback, delay): returns the world with the timer queued; the
\* handle is FreshTimer(W).
FreshTimer(W) == FreshId(TimerIds(W))

setTimeout(W, delay) ==
    [W EXCEPT !.browser.timerQueue =
        @ \cup {[id |-> FreshTimer(W), due |-> W.browser.now + delay]}]

clearRect(W) == [W EXCEPT !.browser.surface = "blank"]

(***************************************************************************)
(* GlitterBombParticles: construction.                                     *)
(***************************************************************************)
PoolSizeFor(cfg) ==
    IF cfg.experienceMode = "particle-field"
    THEN Max(cfg.fieldParticleCount + FieldHeadroom, MinFieldPool)
    ELSE Max(cfg.maxParticles + TrailHeadroom, MinTrailPool)

\* The listeners setupEventListeners() registers on the document, the
\* window and the visual viewport: target, event type and handler.
OnMouseMove        == <<"document", "mousemove", "mouseMoveHandler">>
OnMouseLeave       == <<"document", "mouseleave", "mouseLeaveHandler">>
OnMouseEnter       == <<"document", "mouseenter", "mouseEnterHandler">>
OnTouchStart       == <<"document", "touchstart", "touchStartHandler">>
OnTouchMove        == <<"document", "touchmove", "touchMoveHandler">>
OnTouchEnd         == <<"document", "touchend", "touchEndHandler">>
OnTouchCancel      == <<"document", "touchcancel", "touchEndHandler">>
OnClick            == <<"document", "click", "clickHandler">>
OnTouchTap         == <<"document", "touchend", "touchTapHandler">>
OnResize           == <<"window", "resize", "resizeHandler">>
OnVisibilityChange == <<"document", "visibilitychange", "visibilityChangeHandler">>
OnViewportResize   == <<"visualViewport", "resize", "visualViewportResizeHandler">>

Listeners ==
    {OnViewportResize, OnMouseMove, OnMouseLeave, OnMouseEnter, OnTouchStart,
     OnTouchMove, OnTouchEnd, OnTouchCancel, OnClick, OnTouchTap, OnResize,
     OnVisibilityChange}

\* The listeners destroy() removes.
RemovedByDestroy_keepsTap ==
    {OnMouseMove, OnMouseLeave, OnMouseEnter, OnTouchStart, OnTouchMove,
     OnTouchEnd, OnTouchCancel, OnClick, OnResize, OnVisibilityChange,
     OnViewportResize}

RemovedByDestroy ==
    {OnMouseMove, OnMouseLeave, OnMouseEnter, OnTouchStart, OnTouchMove,
     OnTouchEnd, OnTouchCancel, OnClick, OnTouchTap, OnResize,
     OnVisibilityChange, OnViewportResize}

\* What a run that observes its page load remembers of it: the stored
\* preference init() found, the configured default and disable-on-mobile
\* flag and the reduced-motion setting.  Other runs keep NoLoad.
NoLoad ==
    [recorded |-> FALSE, stored |-> "null", enabledByDefault |-> FALSE,
     disableOnMobile |-> FALSE, prefersReducedMotion |-> FALSE]

\* The fields the constructor sets before init().
Constructed(cfg, hidden, stored, t) ==
    [self |->
        [isActive            |-> FALSE,
         animationFrameId    |-> 0,
         lastUpdateTime      |-> 0,
         mouseInViewport     |-> FALSE,
         isTabVisible        |-> ~hidden,
         isInitialized       |-> FALSE,
         rockets             |-> <<>>,
         rocketLaunchTimer   |-> 0,
         isResizing          |-> FALSE,
         resizeDebounceTimer |-> 0,
         lastResizeTime      |-> 0,
         canvasOpacity       |-> OpacityScale,
         targetOpacity       |-> OpacityScale,
         isFading            |-> FALSE,
         lastParticleX       |-> 0,
         lastParticleY       |-> 0,
         logicalWidth        |-> 0,
         logicalHeight       |-> 0,
         ctx                 |-> FALSE,
         button              |-> FALSE,
         config              |-> cfg,
         particlePool        |-> NewParticlePool(PoolSizeFor(cfg))],
     browser |->
        [now            |-> t,
         hidden         |-> hidden,
         rafQueue       |-> {},
         timerQueue     |-> {},
         sessionStorage |-> stored,
         innerWidth     |-> ViewWidth,
         innerHeight    |-> ViewHeight,
         random         |-> NoRandom,
         listeners      |-> {},
         buttonMounted  |-> FALSE,
         surface        |-> "none",
         ariaPressed    |-> "none",
         announcement   |-> ""],
     ghost |->
        [log            |-> <<>>,
         physicsUpdates |-> 0,
         counting       |-> FALSE,
         lastTickTime   |-> t,
         slowTick       |-> FALSE,
         tracking       |-> FALSE,
         hiddenAt       |-> 0 - 1,
         resumedAt      |-> 0 - 1,
         threw          |-> FALSE,
         destroyed      |-> FALSE,
         load           |-> NoLoad]]

(***************************************************************************)
(* Spawning.                                                               *)
(***************************************************************************)
\* The flight of burst entities and the drift of glitter, confetti and
\* hearts are not modelled: a burst entity keeps the position its record
\* had, an ambient glitter entity stays where it was seeded.

\* Snow: baseSize, fallSpeed, vy and baseOpacity of a flake, from the
\* draws kSize, kVy and kOpacity.
SnowFlake(cfg, kSize, kVy, kOpacity) ==
    LET maxSize   == cfg.fieldParticleSize
        baseSize  == 1 + RandomBelow(kSize, maxSize - 1)
        fallSpeed == MinFallSpeed + (baseSize * FallSpeedRange) \div maxSize
        base      == OpacityBetween(35, 65, kOpacity)
    IN  [size |-> baseSize, fallSpeed |-> fallSpeed,
         vy |-> CeilDiv(fallSpeed * (2 * RandomDen + 5 * kVy), 10 * RandomDen),
         baseOpacity |-> base, opacity |-> base]

\* Autumn leaves: the same fields of a leaf.
AutumnLeaf(cfg, kSize, kVy, kOpacity) ==
    LET maxSize   == cfg.fieldParticleSize
        baseSize  == CeilDiv(maxSize, 2) + RandomBelow(kSize, (8 * maxSize) \div 10)
        fallSpeed == MinFallSpeed
                        + (baseSize * FallSpeedRange) \div (2 * Max(maxSize, 1))
        base      == OpacityBetween(75, 25, kOpacity)
    IN  [size |-> baseSize, fallSpeed |-> fallSpeed,
         vy |-> CeilDiv(fallSpeed * (3 * RandomDen + 4 * kVy), 10 * RandomDen),
         baseOpacity |-> base, opacity |-> base]

\* createFieldParticle(): acquire and initialise one ambient entity at a
\* random place of the logical viewport.
createFieldParticle(W) ==
    LET cfg    == W.self.config
        common == [x |-> RandomBelow(NthRandom(W, 1), W.self.logicalWidth),
                   y |-> RandomBelow(NthRandom(W, 2), W.self.logicalHeight),
                   opacity |-> OpacityBetween(60, 40, NthRandom(W, 3)),
                   isExplosion |-> FALSE, explosionLife |-> 0]
        fall   == IF cfg.fieldParticleStyle = "snow"
                  THEN SnowFlake(cfg, NthRandom(W, 4), NthRandom(W, 5),
                                 NthRandom(W, 6))
                  ELSE AutumnLeaf(cfg, NthRandom(W, 4), NthRandom(W, 5),
                                  NthRandom(W, 6))
        falls  == cfg.fieldParticleStyle \in {"snow", "autumn-leaves"}
        P1     == SetLast(acquire(W.self.particlePool), common)
    IN  [DrawnN(W, IF falls THEN 6 ELSE 3)
            EXCEPT !.self.particlePool = IF falls THEN SetLast(P1, fall) ELSE P1]

\* One entity of the regular click burst or of a rocket's burst.
SpawnExplosionParticle(W) ==
    [W EXCEPT !.self.particlePool =
        SetLast(acquire(@), [opacity |-> OpacityScale,
                             isExplosion |-> TRUE,
                             explosionLife |-> ExplosionLifeInit])]

\* One flake of the snow click burst.
SpawnSnowBurstParticle(W) ==
    LET base == OpacityBetween(80, 20, NthRandom(W, 1))
    IN  [DrawnN(W, 1) EXCEPT !.self.particlePool =
            SetLast(acquire(@), [baseOpacity |-> base, opacity |-> base,
                                 isExplosion |-> TRUE,
                                 explosionLife |-> ExplosionLifeInit])]

\* createSprinkleExplosion(x, y): the trail-mode click burst.
SpawnSprinkleParticle(W) ==
    [W EXCEPT !.self.particlePool =
        SetLast(acquire(@), [opacity |-> OpacityScale,
                             isExplosion |-> TRUE,
                             explosionLife |-> ExplosionLifeInit,
                             birthTime |-> 0, maxLife |-> 0])]

\* The body of a spawning loop, by the kind of entity it spawns.
SpawnOne(kind, W) ==
    CASE kind = "field"      -> createFieldParticle(W)
      [] kind = "explosion"  -> SpawnExplosionParticle(W)
      [] kind = "snow-burst" -> SpawnSnowBurstParticle(W)
      [] kind = "sprinkle"   -> SpawnSprinkleParticle(W)

\* for (let i = 0; i < n; i++) { spawn one }
RECURSIVE Repeat(_, _, _)
Repeat(kind, n, W) == IF n <= 0 THEN W ELSE Repeat(kind, n - 1, SpawnOne(kind, W))

\* initializeParticleField(): release everything, then seed the field (the
\* fireworks style seeds nothing and resets its rockets).
initializeParticleField(W) ==
    LET W1 == [W EXCEPT !.self.particlePool = releaseAll(@)]
    IN  IF W.self.config.fieldParticleStyle = "fireworks"
        THEN [W1 EXCEPT !.self.rockets = <<>>, !.self.rocketLaunchTimer = 0]
        ELSE Repeat("field", W.self.config.fieldParticleCount, W1)

SprinkleBurstCount(cfg) ==
    IF cfg.sprinkleStyle = "emoji" THEN EmojiBurst ELSE TrailBurst

createSprinkleExplosion(W) ==
    Repeat("sprinkle", SprinkleBurstCount(W.self.config), W)

\* explodeRocket(rocket, sparkleCount)
explodeRocket(W, sparkleCount) == Repeat("explosion", sparkleCount, W)

sparklesPerBurst(cfg) == Min(cfg.fieldParticleCount \div 4, 60)

ExplosionBurstCount(cfg) ==
    IF cfg.fieldParticleStyle = "fireworks" THEN sparklesPerBurst(cfg) * 2
    ELSE IF cfg.fieldParticleStyle = "snow" THEN SnowBurst
    ELSE FieldBurst

\* A createExplosion whose fireworks detonation restarts the launch timer.
createExplosion_restartsLaunches(W) ==
    IF W.self.config.fieldParticleStyle = "fireworks"
    THEN [explodeRocket(W, sparklesPerBurst(W.self.config) * 2)
            EXCEPT !.self.rocketLaunchTimer = 0]
    ELSE Repeat(IF W.self.config.fieldParticleStyle = "snow"
                THEN "snow-burst" ELSE "explosion",
                ExplosionBurstCount(W.self.config), W)

\* createExplosion(x, y): the field-mode click burst (fireworks detonate an
\* ad-hoc rocket of twice the burst size instead).
createExplosion(W) ==
    IF W.self.config.fieldParticleStyle = "fireworks"
    THEN explodeRocket(W, sparklesPerBurst(W.self.config) * 2)
    ELSE Repeat(IF W.self.config.fieldParticleStyle = "snow"
                THEN "snow-burst" ELSE "explosion",
                ExplosionBurstCount(W.self.config), W)

\* A spacing threshold that lets every move spawn.
minSpacing_none(cfg) == 0

minSpacing(cfg) == IF cfg.isMobile THEN 12 ELSE 8

\* createParticle(x, y): one trail entity per pointer move that is at least
\* minSpacing away from the last spawn; the oldest entity is released first
\* when the working set is at maxParticles.  isExplosion and explosionLife
\* are not written.
createParticle(W, x, y) ==
    LET dx == x - W.self.lastParticleX
        dy == y - W.self.lastParticleY
        ms == minSpacing(W.self.config)
    IN  IF dx * dx + dy * dy < ms * ms THEN W
        ELSE LET P0 == W.self.particlePool
                 P1 == IF Len(getActive(P0)) >= W.self.config.maxParticles
                       THEN release(P0, getActive(P0)[1]) ELSE P0
                 P2 == SetLast(acquire(P1),
                               [x |-> x, y |-> y, vy |-> 0,
                                opacity   |-> W.self.config.particleOpacity,
                                birthTime |-> W.browser.now,
                                maxLife   |-> W.self.config.animationDuration])
             IN  [W EXCEPT !.self.lastParticleX = x,
                           !.self.lastParticleY = y,
                           !.self.particlePool = P2]

(***************************************************************************)
(* Physics updates.  Each loop walks the working set from its last index   *)
(* down to the first, reading the array as it is at that moment.           *)
(***************************************************************************)
\* particle.opacity <= 0.01 for a trail entity of the given age at (1-based)
\* index i of particleCount: opacity = particleOpacity * min(lifeRatio,
\* positionRatio), compared exactly by cross-multiplication.
TrailFaded(cfg, age, maxLife, i, particleCount) ==
    LET po == cfg.particleOpacity
        lifeGone == age >= maxLife
        lifeLow  == ~lifeGone /\ 100 * po * (maxLife - age) <= OpacityScale * maxLife
        posLow   == particleCount > 1 /\ 100 * po * i <= OpacityScale * particleCount
        posOne   == particleCount <= 1 /\ 100 * po <= OpacityScale
    IN  lifeGone \/ lifeLow \/ posLow \/ posOne

\* A trail opacity that fades by age alone.
TrailOpacity_byAge(cfg, age, maxLife, i, particleCount) ==
    IF age >= maxLife THEN 0
    ELSE (cfg.particleOpacity * (maxLife - age)) \div maxLife

\* particle.opacity of that trail entity:
\* particleOpacity * min(max(0, 1 - age / maxLife), positionRatio).
TrailOpacity(cfg, age, maxLife, i, particleCount) ==
    LET po   == cfg.particleOpacity
        life == IF age >= maxLife THEN 0 ELSE (po * (maxLife - age)) \div maxLife
        pos  == IF particleCount > 1 THEN (po * i) \div particleCount ELSE po
    IN  Min(life, pos)

\* explosionLife is counted in ticks left, so that one tick's decay is 1;
\* in opacity units the decay per tick is 0.02 (field and trail bursts),
\* 0.016 (snow), 0.018 (autumn leaves) and 0.01 (fireworks sparkles).
EXPLOSION_DECAY == (2 * OpacityScale) \div 100

SNOW_DECAY == (16 * OpacityScale) \div 1000

AUTUMN_DECAY == (18 * OpacityScale) \div 1000

SPARKLE_DECAY == OpacityScale \div 100

\* baseOpacity || fallback, as a fraction of OpacityScale
OrElse(baseOpacity, fallback) == IF baseOpacity = 0 THEN fallback ELSE baseOpacity

\* A tick that leaves a burst entity as it was.
Decayed_frozen(o, decay, factor) == o

\* The decay of a burst entity in one tick: explosionLife -= decay;
\* opacity = max(0, explosionLife * factor).
Decayed(o, decay, factor) ==
    LET life == o.explosionLife - 1
    IN  [o EXCEPT !.explosionLife = life,
                  !.opacity = Max(0, (life * decay * factor) \div OpacityScale)]

OffScreen(W, o) ==
    Abs(o.x) > W.self.logicalWidth * 2 \/ Abs(o.y) > W.self.logicalHeight * 2

\* A trail loop that, after a release, goes on at the same index.
RECURSIVE SprinkleLoop_revisits(_, _, _, _, _)
SprinkleLoop_revisits(P, i, particleCount, currentTime, W) ==
    IF i = 0 THEN P
    ELSE LET id  == P.activeParticles[i]
             o   == P.objects[id]
             cfg == W.self.config
         IN  IF o.isExplosion
             THEN LET P1 == [P EXCEPT !.objects[id] =
                                Decayed(o, EXPLOSION_DECAY, OpacityScale)]
                  IN  IF P1.objects[id].explosionLife <= 0
                      THEN SprinkleLoop_revisits(release(P1, id),
                                Min(i, Len(P1.activeParticles) - 1),
                                particleCount, currentTime, W)
                      ELSE SprinkleLoop_revisits(P1, i - 1, particleCount,
                                                 currentTime, W)
             ELSE LET age == currentTime - o.birthTime
                      P1  == [P EXCEPT !.objects[id].opacity =
                                TrailOpacity(cfg, age, o.maxLife, i, particleCount)]
                  IN  SprinkleLoop_revisits(IF age >= o.maxLife
                                      \/ TrailFaded(cfg, age, o.maxLife, i, particleCount)
                                      \/ OffScreen(W, o)
                                   THEN release(P1, id) ELSE P1,
                                   i - 1, particleCount, currentTime, W)

RECURSIVE SprinkleLoop(_, _, _, _, _)
SprinkleLoop(P, i, particleCount, currentTime, W) ==
    IF i = 0 THEN P
    ELSE LET id  == P.activeParticles[i]
             o   == P.objects[id]
             cfg == W.self.config
         IN  IF o.isExplosion
             THEN LET P1 == [P EXCEPT !.objects[id] =
                                Decayed(o, EXPLOSION_DECAY, OpacityScale)]
                  IN  SprinkleLoop(IF P1.objects[id].explosionLife <= 0
                                   THEN release(P1, id) ELSE P1,
                                   i - 1, particleCount, currentTime, W)
             ELSE LET age == currentTime - o.birthTime
                      P1  == [P EXCEPT !.objects[id].opacity =
                                TrailOpacity(cfg, age, o.maxLife, i, particleCount)]
                  IN  SprinkleLoop(IF age >= o.maxLife
                                      \/ TrailFaded(cfg, age, o.maxLife, i, particleCount)
                                      \/ OffScreen(W, o)
                                   THEN release(P1, id) ELSE P1,
                                   i - 1, particleCount, currentTime, W)

updateSprinkleParticles(W, currentTime) ==
    [W EXCEPT !.self.particlePool =
        SprinkleLoop(@, Len(@.activeParticles), Len(@.activeParticles),
                     currentTime, W)]

\* A field loop that releases the ambient entities it meets.
RECURSIVE ExplosionLoop_dropsAmbient(_, _)
ExplosionLoop_dropsAmbient(P, i) ==
    IF i = 0 THEN P
    ELSE LET id == P.activeParticles[i]
             o  == P.objects[id]
         IN  IF o.isExplosion
             THEN LET P1 == [P EXCEPT !.objects[id] =
                                Decayed(o, EXPLOSION_DECAY, OpacityScale)]
                  IN  ExplosionLoop_dropsAmbient(
                            IF P1.objects[id].explosionLife <= 0
                            THEN release(P1, id) ELSE P1, i - 1)
             ELSE ExplosionLoop_dropsAmbient(release(P, id), i - 1)

\* The loop of updateFieldParticles: a burst entity decays and is released
\* at zero life; ambient entities stay in the set.
RECURSIVE ExplosionLoop(_, _)
ExplosionLoop(P, i) ==
    IF i = 0 THEN P
    ELSE LET id == P.activeParticles[i]
             o  == P.objects[id]
         IN  IF o.isExplosion
             THEN LET P1 == [P EXCEPT !.objects[id] =
                                Decayed(o, EXPLOSION_DECAY, OpacityScale)]
                  IN  ExplosionLoop(IF P1.objects[id].explosionLife <= 0
                                    THEN release(P1, id) ELSE P1, i - 1)
             ELSE ExplosionLoop(P, i - 1)

updateFieldParticles(W) ==
    [W EXCEPT !.self.particlePool = ExplosionLoop(@, Len(@.activeParticles))]

\* The constants in which the snow and the autumn loop differ: the decay of
\* a burst entity and its fallback opacity, the margin (in sizes) beyond
\* the bottom edge at which an entity respawns, the spread of the respawn
\* velocity (tenths of fallSpeed) and whether the opacity shimmers.
FallStyle(style) ==
    IF style = "snow"
    THEN [decay |-> SNOW_DECAY, fallback |-> (9 * OpacityScale) \div 10,
          margin |-> 1, vyLow |-> 2, vySpan |-> 3, shimmers |-> TRUE]
    ELSE [decay |-> AUTUMN_DECAY, fallback |-> (8 * OpacityScale) \div 10,
          margin |-> 2, vyLow |-> 3, vySpan |-> 3, shimmers |-> FALSE]

\* FallStep that lets an entity fall on below the bottom edge.
FallStep_fallsThrough(W, id, fs) ==
    LET o   == W.self.particlePool.objects[id]
        vy1 == IF o.vy < o.fallSpeed THEN o.vy + Gravity ELSE o.vy
    IN  [W EXCEPT !.self.particlePool.objects[id] =
                        [o EXCEPT !.y = o.y + vy1, !.vy = vy1]]

\* One ambient flake or leaf in one tick: gravity up to fallSpeed, the lift
\* of the pointer's disturbance (a draw, when the pointer is in the
\* viewport), the fall, the respawn above the top edge once it is below the
\* bottom edge by more than its margin, and the shimmer of a flake's
\* opacity (its phase is a draw).  Returns the world with the entity
\* updated and the draws consumed.
FallStep(W, id, fs) ==
    LET o     == W.self.particlePool.objects[id]
        vy1   == IF o.vy < o.fallSpeed THEN o.vy + Gravity ELSE o.vy
        mouse == W.self.mouseInViewport
        vy2   == IF mouse THEN vy1 - NthRandom(W, 1) ELSE vy1
        W1    == IF mouse THEN DrawnN(W, 1) ELSE W
        y1    == o.y + vy2
        exits == y1 > W.self.logicalHeight + o.size * fs.margin
        o1    == IF exits
                 THEN [o EXCEPT
                        !.x  = RandomBelow(NthRandom(W1, 1), W.self.logicalWidth),
                        !.y  = 0 - o.size * fs.margin
                                 - RandomBelow(NthRandom(W1, 2), RespawnSpread),
                        !.vy = CeilDiv(o.fallSpeed * (fs.vyLow * RandomDen
                                            + fs.vySpan * NthRandom(W1, 3)),
                                       10 * RandomDen)]
                 ELSE [o EXCEPT !.y = y1, !.vy = vy2]
        W2    == IF exits THEN DrawnN(W1, 3) ELSE W1
        o2    == IF fs.shimmers
                 THEN [o1 EXCEPT !.opacity =
                        (o.baseOpacity * (75 * RandomDen + 25 * NthRandom(W2, 1)))
                            \div (100 * RandomDen)]
                 ELSE o1
        W3    == IF fs.shimmers THEN DrawnN(W2, 1) ELSE W2
    IN  [W3 EXCEPT !.self.particlePool.objects[id] = o2]

\* The loop of updateSnowParticles and updateAutumnParticles.
RECURSIVE FallLoop(_, _, _)
FallLoop(W, i, fs) ==
    IF i = 0 THEN W
    ELSE LET P  == W.self.particlePool
             id == P.activeParticles[i]
             o  == P.objects[id]
         IN  IF o.isExplosion
             THEN LET P1 == [P EXCEPT !.objects[id] =
                                Decayed(o, fs.decay, OrElse(o.baseOpacity, fs.fallback))]
                  IN  FallLoop([W EXCEPT !.self.particlePool =
                                    IF P1.objects[id].explosionLife <= 0
                                    THEN release(P1, id) ELSE P1],
                               i - 1, fs)
             ELSE FallLoop(FallStep(W, id, fs), i - 1, fs)

updateSnowParticles(W) ==
    FallLoop(W, Len(W.self.particlePool.activeParticles), FallStyle("snow"))

updateAutumnParticles(W) ==
    FallLoop(W, Len(W.self.particlePool.activeParticles), FallStyle("autumn-leaves"))

\* launchRocket(palette): speed and start height are the random draws.
launchRocket(W, draw) ==
    [W EXCEPT !.self.rockets = Append(@, [vy |-> 0 - draw.speed, y |-> draw.y])]

\* A rocket loop in which no rocket explodes at its apex.
RECURSIVE RocketLoop_noApex(_, _)
RocketLoop_noApex(W, i) ==
    IF i = 0 THEN W
    ELSE LET r  == W.self.rockets[i]
             W1 == [W EXCEPT !.self.rockets[i] = [vy |-> r.vy + 1, y |-> r.y + r.vy + 1]]
         IN  IF r.y + r.vy + 1 < 0
             THEN RocketLoop_noApex([W1 EXCEPT !.self.rockets = RemoveAt(@, i)], i - 1)
             ELSE RocketLoop_noApex(W1, i - 1)

\* The rocket loop of updateFireworksParticles, from the last rocket down:
\* gravity, then detonation at the apex or silent removal above the top.
RECURSIVE RocketLoop(_, _)
RocketLoop(W, i) ==
    IF i = 0 THEN W
    ELSE LET r  == W.self.rockets[i]
             vy == r.vy + 1
             y  == r.y + vy
             W1 == [W EXCEPT !.self.rockets[i] = [vy |-> vy, y |-> y]]
         IN  IF vy >= 0
             THEN RocketLoop([explodeRocket(W1, sparklesPerBurst(W.self.config))
                                EXCEPT !.self.rockets = RemoveAt(@, i)], i - 1)
             ELSE IF y < 0
             THEN RocketLoop([W1 EXCEPT !.self.rockets = RemoveAt(@, i)], i - 1)
             ELSE RocketLoop(W1, i - 1)

\* The sparkle loop of updateFireworksParticles: every active entity decays
\* and is released at zero life or once it has fallen below the viewport
\* (`fallen`: the entities whose y exceeds logicalHeight + 50 this tick).
RECURSIVE SparkleLoop(_, _, _)
SparkleLoop(P, i, fallen) ==
    IF i = 0 THEN P
    ELSE LET id == P.activeParticles[i]
             P1 == [P EXCEPT !.objects[id] =
                        Decayed(P.objects[id], SPARKLE_DECAY, OpacityScale)]
         IN  SparkleLoop(IF P1.objects[id].explosionLife <= 0 \/ id \in fallen
                         THEN release(P1, id) ELSE P1, i - 1, fallen)

\* updateFireworksParticles(); rnd holds this tick's random draws.
updateFireworksParticles(W, rnd) ==
    LET W1 == [W EXCEPT !.self.rocketLaunchTimer = @ + 1]
        W2 == IF W1.self.rocketLaunchTimer >= W1.self.config.launchInterval
                 /\ Len(W1.self.rockets) < MAX_ROCKETS
              THEN LET A == launchRocket(W1, rnd.first)
                       B == IF rnd.double THEN launchRocket(A, rnd.second) ELSE A
                   IN  [B EXCEPT !.self.rocketLaunchTimer = 0]
              ELSE W1
        W3 == RocketLoop(W2, Len(W2.self.rockets))
    IN  [W3 EXCEPT !.self.particlePool =
            SparkleLoop(@, Len(@.activeParticles), rnd.fallen)]

(***************************************************************************)
(* Drawing.  Every draw routine clears the surface and paints what is      *)
(* live; it changes nothing else.                                          *)
(***************************************************************************)
Painted(W, withRockets) ==
    IF Len(getActive(W.self.particlePool)) > 0
       \/ (withRockets /\ Len(W.self.rockets) > 0)
    THEN "drawn" ELSE "blank"

drawSprinkleParticles(W) ==
    Note([clearRect(W) EXCEPT !.browser.surface = Painted(W, FALSE)], "draw")

\* A field draw loop that leaves every entity at its scaled opacity.
RECURSIVE PaintLoop_keepsScaled(_, _, _)
PaintLoop_keepsScaled(P, i, opacityMult) ==
    IF i > Len(P.activeParticles) THEN P
    ELSE LET id          == P.activeParticles[i]
             origOpacity == P.objects[id].opacity
         IN  PaintLoop_keepsScaled(
                [P EXCEPT !.objects[id].opacity =
                            (origOpacity * opacityMult) \div OpacityScale],
                i + 1, opacityMult)

\* The forEach of drawFieldParticles: each entity is painted at its opacity
\* times the multiplier, which is written to the entity for the paint and
\* replaced by the saved value after it.
RECURSIVE PaintLoop(_, _, _)
PaintLoop(P, i, opacityMult) ==
    IF i > Len(P.activeParticles) THEN P
    ELSE LET id          == P.activeParticles[i]
             origOpacity == P.objects[id].opacity
             scaled      == [P EXCEPT !.objects[id].opacity =
                                (origOpacity * opacityMult) \div OpacityScale]
         IN  PaintLoop([scaled EXCEPT !.objects[id].opacity = origOpacity],
                       i + 1, opacityMult)

drawFieldParticles(W) ==
    Note([clearRect(W) EXCEPT
            !.browser.surface = Painted(W, FALSE),
            !.self.particlePool =
                PaintLoop(@, 1, W.self.config.fieldParticleOpacity)],
         "draw")

drawFireworksParticles(W) ==
    Note([clearRect(W) EXCEPT !.browser.surface = Painted(W, TRUE)], "draw")

(***************************************************************************)
(* Resize: debounce and fade.                                              *)
(***************************************************************************)
\* calculateCanvasSize(): take the logical size from the window; assigning
\* canvas.width resets (blanks) the bitmap.
calculateCanvasSize(W) ==
    [clearRect(W) EXCEPT !.self.logicalWidth = W.browser.innerWidth,
                         !.self.logicalHeight = W.browser.innerHeight]

DIM_OPACITY == (3 * OpacityScale) \div 10

\* The callback handleResize() hands to setTimeout.
resizeDebounceCallback(W) ==
    LET W1 == calculateCanvasSize(W)
        W2 == IF W1.self.config.experienceMode = "particle-field" /\ W1.self.isActive
              THEN initializeParticleField(W1)
              ELSE W1
    IN  [W2 EXCEPT !.self.isResizing = FALSE,
                   !.self.targetOpacity = OpacityScale,
                   !.self.isFading = TRUE]

\* handleResize() that never dims the canvas.
handleResize_neverDims(W) ==
    LET W1 == IF W.self.resizeDebounceTimer # 0
              THEN clearTimeout(W, W.self.resizeDebounceTimer) ELSE W
        W3 == [W1 EXCEPT !.self.lastResizeTime = W.browser.now]
    IN  [setTimeout(W3, RESIZE_DEBOUNCE_DELAY)
            EXCEPT !.self.resizeDebounceTimer = FreshTimer(W3)]

\* handleResize() that leaves the timer of the signal before pending.
handleResize_keepsTimer(W) ==
    LET now == W.browser.now
        W2  == IF now - W.self.lastResizeTime < RAPID_RESIZE_WINDOW
                  /\ ~W.self.isResizing
               THEN [W EXCEPT !.self.isResizing = TRUE,
                              !.self.targetOpacity = DIM_OPACITY,
                              !.self.isFading = TRUE]
               ELSE W
        W3  == [W2 EXCEPT !.self.lastResizeTime = now]
    IN  [setTimeout(W3, RESIZE_DEBOUNCE_DELAY)
            EXCEPT !.self.resizeDebounceTimer = FreshTimer(W3)]

handleResize(W) ==
    LET now == W.browser.now
        W1  == IF W.self.resizeDebounceTimer # 0
               THEN clearTimeout(W, W.self.resizeDebounceTimer) ELSE W
        W2  == IF now - W1.self.lastResizeTime < RAPID_RESIZE_WINDOW
                  /\ ~W1.self.isResizing
               THEN [W1 EXCEPT !.self.isResizing = TRUE,
                               !.self.targetOpacity = DIM_OPACITY,
                               !.self.isFading = TRUE]
               ELSE W1
        W3  == [W2 EXCEPT !.self.lastResizeTime = now]
    IN  [setTimeout(W3, RESIZE_DEBOUNCE_DELAY)
            EXCEPT !.self.resizeDebounceTimer = FreshTimer(W3)]

\* updateCanvasOpacity() without the snap to the target.
updateCanvasOpacity_noSnap(W) ==
    IF ~W.self.isFading THEN W
    ELSE [W EXCEPT !.self.canvasOpacity =
                        @ + ((W.self.targetOpacity - @) * 5) \div 100]

\* updateCanvasOpacity() with a fade speed of 1.5.
updateCanvasOpacity_overshoots(W) ==
    IF ~W.self.isFading THEN W
    ELSE LET diff == W.self.targetOpacity - W.self.canvasOpacity
         IN  IF Abs(diff) * 100 < OpacityScale
             THEN [W EXCEPT !.self.canvasOpacity = W.self.targetOpacity,
                            !.self.isFading = FALSE]
             ELSE [W EXCEPT !.self.canvasOpacity = @ + (diff * 150) \div 100]

\* updateCanvasOpacity(): fadeSpeed 0.05, snap within 0.01 of the target.
updateCanvasOpacity(W) ==
    IF ~W.self.isFading THEN W
    ELSE LET diff == W.self.targetOpacity - W.self.canvasOpacity
         IN  IF Abs(diff) * 100 < OpacityScale
             THEN [W EXCEPT !.self.canvasOpacity = W.self.targetOpacity,
                            !.self.isFading = FALSE]
             ELSE [W EXCEPT !.self.canvasOpacity = @ + (diff * 5) \div 100]

(***************************************************************************)
(* The frame loop.                                                         *)
(***************************************************************************)
NoDraws ==
    [first  |-> [speed |-> 1, y |-> 0], double |-> FALSE,
     second |-> [speed |-> 1, y |-> 0], fallen |-> {}]

PhysicsUpdate(W, currentTime, rnd) ==
    LET cfg == W.self.config
        W1  == Note(W, "update")
    IN  IF cfg.experienceMode = "sprinkle-trail"
        THEN drawSprinkleParticles(updateSprinkleParticles(W1, currentTime))
        ELSE IF cfg.fieldParticleStyle = "snow"
        THEN drawFieldParticles(updateSnowParticles(W1))
        ELSE IF cfg.fieldParticleStyle = "autumn-leaves"
        THEN drawFieldParticles(updateAutumnParticles(W1))
        ELSE IF cfg.fieldParticleStyle = "fireworks"
        THEN drawFireworksParticles(updateFireworksParticles(W1, rnd))
        ELSE drawFieldParticles(updateFieldParticles(W1))

RedrawOnly(W) ==
    LET cfg == W.self.config
    IN  IF cfg.experienceMode = "sprinkle-trail" THEN drawSprinkleParticles(W)
        ELSE IF cfg.fieldParticleStyle = "fireworks" THEN drawFireworksParticles(W)
        ELSE drawFieldParticles(W)

\* A time reference that is set to the tick's time, dropping the remainder.
NextUpdateTime_drifts(currentTime, deltaTime) == currentTime

\* lastUpdateTime after a physics update.
NextUpdateTime(currentTime, deltaTime) == currentTime - (deltaTime % FRAME_DURATION)

\* animate() without the frame throttle: physics on every call.
animate_unthrottled(W, rnd) ==
    IF ~W.self.isTabVisible \/ ~W.self.isActive
    THEN [W EXCEPT !.self.animationFrameId = 0]
    ELSE requestAnimationFrame(
            [PhysicsUpdate(updateCanvasOpacity(W), W.browser.now, rnd)
                EXCEPT !.self.lastUpdateTime = W.browser.now,
                       !.ghost.physicsUpdates = IF W.ghost.counting THEN @ + 1 ELSE @])

\* animate(): physics at most once per FRAME_DURATION, a redraw on every
\* call, and one more frame requested while visible and active.
animate(W, rnd) ==
    IF ~W.self.isTabVisible \/ ~W.self.isActive
    THEN [W EXCEPT !.self.animationFrameId = 0]
    ELSE LET currentTime == W.browser.now
             deltaTime   == currentTime - W.self.lastUpdateTime
             W1 == IF deltaTime >= FRAME_DURATION
                   THEN [PhysicsUpdate(updateCanvasOpacity(W), currentTime, rnd)
                            EXCEPT !.self.lastUpdateTime =
                                        NextUpdateTime(currentTime, deltaTime),
                                   !.ghost.physicsUpdates =
                                        IF W.ghost.counting THEN @ + 1 ELSE @]
                   ELSE RedrawOnly(W)
         IN  requestAnimationFrame(W1)

start(W) ==
    IF W.self.animationFrameId = 0 /\ W.self.isTabVisible
    THEN animate([W EXCEPT !.self.lastUpdateTime = W.browser.now], NoDraws)
    ELSE W

\* stop(): cancel the frame, drain the pool, drop the rockets, clear the
\* surface.  Without a drawing context the last statement throws.
stop(W) ==
    LET W1 == IF W.self.animationFrameId # 0
              THEN [cancelAnimationFrame(W, W.self.animationFrameId)
                        EXCEPT !.self.animationFrameId = 0]
              ELSE W
        W2 == [W1 EXCEPT !.self.particlePool = releaseAll(@),
                         !.self.rockets = <<>>,
                         !.self.isInitialized = FALSE]
    IN  IF W2.self.ctx THEN clearRect(W2)
        ELSE [W2 EXCEPT !.ghost.threw = TRUE]

BoolStr(b) == IF b THEN "true" ELSE "false"

updateButtonUI(W) ==
    IF ~W.self.button THEN W
    ELSE [W EXCEPT !.browser.ariaPressed = BoolStr(W.self.isActive)]

\* A toggle that leaves the button as it was.
toggle_keepsPressed(W) ==
    LET W1 == [W EXCEPT !.self.isActive = ~@]
        W2 == [W1 EXCEPT !.browser.sessionStorage = BoolStr(W1.self.isActive)]
        W3 == [W2 EXCEPT !.browser.announcement =
                    IF W1.self.isActive THEN "enabled" ELSE "disabled"]
    IN  IF W3.self.isActive
        THEN start(IF W3.self.config.experienceMode = "particle-field"
                   THEN [initializeParticleField(W3) EXCEPT !.self.isInitialized = TRUE]
                   ELSE W3)
        ELSE stop(W3)

toggle(W) ==
    LET W1 == [W EXCEPT !.self.isActive = ~@]
        W2 == [W1 EXCEPT !.browser.sessionStorage = BoolStr(W1.self.isActive)]
        W3 == [updateButtonUI(W2) EXCEPT !.browser.announcement =
                    IF W1.self.isActive THEN "enabled" ELSE "disabled"]
    IN  IF W3.self.isActive
        THEN start(IF W3.self.config.experienceMode = "particle-field"
                   THEN [initializeParticleField(W3) EXCEPT !.self.isInitialized = TRUE]
                   ELSE W3)
        ELSE stop(W3)

\* A visibility handler that leaves the pending frame alone when the tab
\* is hidden.
visibilityChangeHandler_keepsFrame(W) ==
    LET W1 == [W EXCEPT !.self.isTabVisible = ~W.browser.hidden]
    IN  IF W1.self.isTabVisible /\ W1.self.isActive /\ W1.self.animationFrameId = 0
        THEN animate([W1 EXCEPT !.self.lastUpdateTime = W.browser.now], NoDraws)
        ELSE W1

\* A visibility handler that tears the simulation down when the tab is
\* hidden, as toggle-off does.
visibilityChangeHandler_stops(W) ==
    LET W1 == [W EXCEPT !.self.isTabVisible = ~W.browser.hidden]
    IN  IF W1.self.isTabVisible /\ W1.self.isActive
        THEN IF W1.self.animationFrameId = 0
             THEN animate([W1 EXCEPT !.self.lastUpdateTime = W.browser.now], NoDraws)
             ELSE W1
        ELSE stop(W1)

\* A visibility handler that resumes without resetting lastUpdateTime.
visibilityChangeHandler_noReset(W) ==
    LET W1 == [W EXCEPT !.self.isTabVisible = ~W.browser.hidden]
    IN  IF W1.self.isTabVisible /\ W1.self.isActive
        THEN IF W1.self.animationFrameId = 0 THEN animate(W1, NoDraws) ELSE W1
        ELSE IF W1.self.animationFrameId # 0
             THEN [cancelAnimationFrame(W1, W1.self.animationFrameId)
                        EXCEPT !.self.animationFrameId = 0]
             ELSE W1

visibilityChangeHandler(W) ==
    LET W1 == [W EXCEPT !.self.isTabVisible = ~W.browser.hidden]
    IN  IF W1.self.isTabVisible /\ W1.self.isActive
        THEN IF W1.self.animationFrameId = 0
             THEN animate([W1 EXCEPT !.self.lastUpdateTime = W.browser.now], NoDraws)
             ELSE W1
        ELSE IF W1.self.animationFrameId # 0
             THEN [cancelAnimationFrame(W1, W1.self.animationFrameId)
                        EXCEPT !.self.animationFrameId = 0]
             ELSE W1

\* init() that initializes on every viewport.
init_neverSkips(W, enabledByDefault, disableOnMobile, prefersReducedMotion) ==
    IF FALSE THEN W
    ELSE LET W1 == [calculateCanvasSize([W EXCEPT !.self.ctx = TRUE])
                        EXCEPT !.self.button = TRUE,
                               !.browser.buttonMounted = TRUE,
                               !.browser.listeners = @ \cup Listeners]
             savedState == W1.browser.sessionStorage
             W2 == IF savedState # "null"
                   THEN [W1 EXCEPT !.self.isActive = (savedState = "true")]
                   ELSE [W1 EXCEPT !.self.isActive = enabledByDefault,
                                   !.browser.sessionStorage = BoolStr(enabledByDefault)]
             W3 == IF prefersReducedMotion
                   THEN [W2 EXCEPT !.self.isActive = FALSE] ELSE W2
             W4 == updateButtonUI(W3)
         IN  IF W4.self.isActive
             THEN start(IF W4.self.config.experienceMode = "particle-field"
                        THEN [initializeParticleField(W4)
                                 EXCEPT !.self.isInitialized = TRUE]
                        ELSE W4)
             ELSE W4

\* init() without the reduced-motion override.
init_ignoresMotion(W, enabledByDefault, disableOnMobile, prefersReducedMotion) ==
    IF W.self.config.isMobile /\ disableOnMobile THEN W
    ELSE LET W1 == [calculateCanvasSize([W EXCEPT !.self.ctx = TRUE])
                        EXCEPT !.self.button = TRUE,
                               !.browser.buttonMounted = TRUE,
                               !.browser.listeners = @ \cup Listeners]
             savedState == W1.browser.sessionStorage
             W2 == IF savedState # "null"
                   THEN [W1 EXCEPT !.self.isActive = (savedState = "true")]
                   ELSE [W1 EXCEPT !.self.isActive = enabledByDefault,
                                   !.browser.sessionStorage = BoolStr(enabledByDefault)]
             W3 == W2
             W4 == updateButtonUI(W3)
         IN  IF W4.self.isActive
             THEN start(IF W4.self.config.experienceMode = "particle-field"
                        THEN [initializeParticleField(W4)
                                 EXCEPT !.self.isInitialized = TRUE]
                        ELSE W4)
             ELSE W4

\* init() that takes every stored value but 'false' for an enabled session.
init_truthy(W, enabledByDefault, disableOnMobile, prefersReducedMotion) ==
    IF W.self.config.isMobile /\ disableOnMobile THEN W
    ELSE LET W1 == [calculateCanvasSize([W EXCEPT !.self.ctx = TRUE])
                        EXCEPT !.self.button = TRUE,
                               !.browser.buttonMounted = TRUE,
                               !.browser.listeners = @ \cup Listeners]
             savedState == W1.browser.sessionStorage
             W2 == IF savedState # "null"
                   THEN [W1 EXCEPT !.self.isActive = (savedState # "false")]
                   ELSE [W1 EXCEPT !.self.isActive = enabledByDefault,
                                   !.browser.sessionStorage = BoolStr(enabledByDefault)]
             W3 == IF prefersReducedMotion
                   THEN [W2 EXCEPT !.self.isActive = FALSE] ELSE W2
             W4 == updateButtonUI(W3)
         IN  IF W4.self.isActive
             THEN start(IF W4.self.config.experienceMode = "particle-field"
                        THEN [initializeParticleField(W4)
                                 EXCEPT !.self.isInitialized = TRUE]
                        ELSE W4)
             ELSE W4

\* An init() whose reduced-motion override is stored as the preference.
init_storesOverride(W, enabledByDefault, disableOnMobile, prefersReducedMotion) ==
    IF W.self.config.isMobile /\ disableOnMobile THEN W
    ELSE LET W1 == [calculateCanvasSize([W EXCEPT !.self.ctx = TRUE])
                        EXCEPT !.self.button = TRUE,
                               !.browser.buttonMounted = TRUE,
                               !.browser.listeners = @ \cup Listeners]
             savedState == W1.browser.sessionStorage
             W2 == IF savedState # "null"
                   THEN [W1 EXCEPT !.self.isActive = (savedState = "true")]
                   ELSE [W1 EXCEPT !.self.isActive = enabledByDefault,
                                   !.browser.sessionStorage = BoolStr(enabledByDefault)]
             W3 == IF prefersReducedMotion
                   THEN [W2 EXCEPT !.self.isActive = FALSE,
                                   !.browser.sessionStorage = "false"]
                   ELSE W2
             W4 == updateButtonUI(W3)
         IN  IF W4.self.isActive
             THEN start(IF W4.self.config.experienceMode = "particle-field"
                        THEN [initializeParticleField(W4)
                                 EXCEPT !.self.isInitialized = TRUE]
                        ELSE W4)
             ELSE W4

\* init(): skipped altogether on a small viewport when disableOnMobile is
\* set; otherwise canvas, button and listeners, then the initial state from
\* the stored preference or enabledByDefault, overridden by reduced motion.
init(W, enabledByDefault, disableOnMobile, prefersReducedMotion) ==
    IF W.self.config.isMobile /\ disableOnMobile THEN W
    ELSE LET W1 == [calculateCanvasSize([W EXCEPT !.self.ctx = TRUE])
                        EXCEPT !.self.button = TRUE,
                               !.browser.buttonMounted = TRUE,
                               !.browser.listeners = @ \cup Listeners]
             savedState == W1.browser.sessionStorage
             W2 == IF savedState # "null"
                   THEN [W1 EXCEPT !.self.isActive = (savedState = "true")]
                   ELSE [W1 EXCEPT !.self.isActive = enabledByDefault,
                                   !.browser.sessionStorage = BoolStr(enabledByDefault)]
             W3 == IF prefersReducedMotion
                   THEN [W2 EXCEPT !.self.isActive = FALSE] ELSE W2
             W4 == updateButtonUI(W3)
         IN  IF W4.self.isActive
             THEN start(IF W4.self.config.experienceMode = "particle-field"
                        THEN [initializeParticleField(W4)
                                 EXCEPT !.self.isInitialized = TRUE]
                        ELSE W4)
             ELSE W4

\* destroy(): clear the debounce timer, remove the listeners, stop(), then
\* remove the DOM elements (not reached when stop() throws).
destroy(W) ==
    LET W1 == IF W.self.resizeDebounceTimer # 0
              THEN clearTimeout(W, W.self.resizeDebounceTimer) ELSE W
        W2 == [W1 EXCEPT !.browser.listeners = @ \ RemovedByDestroy,
                         !.ghost.destroyed = TRUE]
        W3 == stop(W2)
    IN  IF W3.ghost.threw THEN W3
        ELSE [W3 EXCEPT !.browser.buttonMounted = FALSE,
                        !.browser.surface = "none"]

(***************************************************************************)
(* Event handlers registered by setupEventListeners().                     *)
(***************************************************************************)
mouseMoveHandler(W, x, y) ==
    LET W1 == [W EXCEPT !.self.mouseInViewport = TRUE]
    IN  IF W1.self.isActive /\ W1.self.config.experienceMode = "sprinkle-trail"
        THEN createParticle(W1, x, y) ELSE W1

mouseLeaveHandler(W) == [W EXCEPT !.self.mouseInViewport = FALSE]

mouseEnterHandler(W) == [W EXCEPT !.self.mouseInViewport = TRUE]

touchMoveHandler(W, x, y) ==
    IF ~W.self.isActive THEN W
    ELSE LET W1 == [W EXCEPT !.self.mouseInViewport = TRUE]
         IN  IF W1.self.config.experienceMode = "sprinkle-trail"
             THEN createParticle(W1, x, y) ELSE W1

touchStartHandler(W) ==
    IF ~W.self.isActive THEN W ELSE [W EXCEPT !.self.mouseInViewport = TRUE]

touchEndHandler(W) == [W EXCEPT !.self.mouseInViewport = FALSE]

\* A click handler without the isActive guard.
clickHandler_unguarded(W) ==
    LET cfg == W.self.config
    IN  IF cfg.experienceMode = "particle-field" /\ cfg.fieldClickExplosion
        THEN createExplosion(W)
        ELSE IF cfg.experienceMode = "sprinkle-trail" /\ cfg.sprinkleClickExplosion
        THEN createSprinkleExplosion(W)
        ELSE W

\* clickHandler and touchTapHandler have the same body.
clickHandler(W) ==
    LET cfg == W.self.config
    IN  IF ~W.self.isActive THEN W
        ELSE IF cfg.experienceMode = "particle-field" /\ cfg.fieldClickExplosion
        THEN createExplosion(W)
        ELSE IF cfg.experienceMode = "sprinkle-trail" /\ cfg.sprinkleClickExplosion
        THEN createSprinkleExplosion(W)
        ELSE W

touchTapHandler(W) == clickHandler(W)

(***************************************************************************)
(* The state machine.                                                      *)
(***************************************************************************)
StoredStates == {"null", "true", "false"}

Viewport(w, h) == [w |-> w, h |-> h]

RocketDraws == [speed : 1..MaxRocketSpeed, y : 0..MaxRocketStartY]

\* The environment of a run: the clock readings at which handlers run, the
\* steps the clock takes between them, the pointer positions offered (the
\* y coordinate is 0), the streams Math.random() may return to a handler,
\* the sizes the window may take, the values sessionStorage may hold at
\* page load, whether the run observes its page load, and the speeds and
\* start heights launchRocket() may draw.  It never changes.
Environment(instants, steps, pointerXs) ==
    [instants |-> instants, steps |-> steps, pointerXs |-> pointerXs,
     randoms |-> {<<0>>}, viewports |-> {Viewport(ViewWidth, ViewHeight)},
     stored |-> StoredStates, recordsLoad |-> FALSE, rocketDraws |-> RocketDraws]

\* The worlds in which a handler may start: W with one of the environment's
\* streams behind Math.random().
Seeded(W) == {[W EXCEPT !.browser.random = [seq |-> s, pos |-> 0]] : s \in env.randoms}

\* A burst of MaxFrames frame intervals from the origin, and the instant a
\* debounce delay after the origin.
Instants ==
    {t * FRAME_DURATION : t \in 0..MaxFrames} \cup {RESIZE_DEBOUNCE_DELAY}

PointerXs == {12}

\* Growth of the pool beyond its initial size is capped.
Bounded(W) ==
    Len(W.self.particlePool.objects) <= PoolSizeFor(W.self.config) + MaxGrowth

\* The random draws one frame can consume.
DrawsFor(W) ==
    IF W.self.config.experienceMode = "particle-field"
       /\ W.self.config.fieldParticleStyle = "fireworks"
       /\ W.self.isActive /\ W.self.isTabVisible
       /\ W.browser.now - W.self.lastUpdateTime >= FRAME_DURATION
    THEN LET active  == getActive(W.self.particlePool)
             \* nothing falls out of view, or the oldest sparkle does
             fallens == {{}} \cup {{active[i]} : i \in 1..Min(1, Len(active))}
             launch  == W.self.rocketLaunchTimer + 1 >= W.self.config.launchInterval
         IN  IF launch
             THEN {[first |-> a, double |-> FALSE, second |-> a, fallen |-> f] :
                        a \in env.rocketDraws, f \in fallens}
                  \cup [first : env.rocketDraws, double : {TRUE},
                        second : env.rocketDraws, fallen : fallens]
             ELSE {[NoDraws EXCEPT !.fallen = f] : f \in fallens}
    ELSE {NoDraws}

\* A page load: the constructor and init() under some host configuration,
\* stored preference and media settings.
Loaded(cfgs, envs, counting, tracking) ==
    \E cfg \in cfgs, e \in envs, hidden \in BOOLEAN,
       enabledByDefault \in BOOLEAN, disableOnMobile \in BOOLEAN,
       prefersReducedMotion \in BOOLEAN :
        \E stored \in e.stored, v \in e.viewports, s \in e.randoms :
            LET C == Constructed(cfg, hidden, stored, 0)
                W == init([C EXCEPT !.browser.innerWidth = v.w,
                                    !.browser.innerHeight = v.h,
                                    !.browser.random = [seq |-> s, pos |-> 0]],
                          enabledByDefault, disableOnMobile, prefersReducedMotion)
            IN  /\ self = W.self
                /\ browser = [W.browser EXCEPT !.random = NoRandom]
                /\ ghost = [W.ghost EXCEPT
                            !.counting = counting,
                            !.tracking = tracking,
                            !.load = IF e.recordsLoad
                                     THEN [recorded |-> TRUE, stored |-> stored,
                                           enabledByDefault |-> enabledByDefault,
                                           disableOnMobile |-> disableOnMobile,
                                           prefersReducedMotion |-> prefersReducedMotion]
                                     ELSE NoLoad]
                /\ env = e

\* A page load while the editor holds the block as inserted.
PageLoad(cfgs, envs, counting, tracking) ==
    /\ Loaded(cfgs, envs, counting, tracking)
    /\ attributes = DefaultAttributes

Gaps(S) == {p[2] - p[1] : p \in {q \in S \X S : q[2] > q[1]}}

Init == PageLoad(Configs, {Environment(Instants, Gaps(Instants), PointerXs)},
                 FALSE, FALSE)

Step(W) == Bounded(W) /\ Commit(W)

AdvanceTime ==
    \E d \in env.steps :
        /\ browser.now + d \in env.instants
        /\ browser' = [browser EXCEPT !.now = @ + d]
        /\ ghost' = [ghost EXCEPT !.log = <<>>]
        /\ UNCHANGED <<self, env, attributes>>

\* The browser runs the pending frame callback `id` in world W.
RunFrame(W, id, rnd) ==
    LET W0 == [W EXCEPT !.browser.rafQueue = @ \ {id}]
        W1 == animate(W0, rnd)
    IN  [W1 EXCEPT
            !.ghost.slowTick =
                IF W0.ghost.counting
                THEN @ \/ W0.browser.now - W0.ghost.lastTickTime > FRAME_DURATION
                ELSE @,
            !.ghost.lastTickTime =
                IF W0.ghost.counting THEN W0.browser.now ELSE @]

AnimationFrame ==
    \E id \in browser.rafQueue :
        \E rnd \in DrawsFor(World), W \in Seeded(Begin(World)) :
            Step(RunFrame(W, id, rnd))

\* A display refresh: the clock moves on by one of the environment's steps
\* and the pending frame callback runs at once.
DisplayRefresh ==
    \E d \in env.steps :
        /\ browser.now + d \in env.instants
        /\ \E id \in browser.rafQueue :
                \E W \in Seeded(Begin([World EXCEPT !.browser.now = @ + d])) :
                    \E rnd \in DrawsFor(W) : Step(RunFrame(W, id, rnd))

\* The browser runs a debounce timer that is due.
DebounceFire ==
    \E t \in browser.timerQueue :
        /\ browser.now >= t.due
        /\ \E W \in Seeded(Begin([World EXCEPT !.browser.timerQueue = @ \ {t}])) :
                Step(resizeDebounceCallback(W))

Toggle ==
    /\ browser.buttonMounted
    /\ \E W \in Seeded(Begin(World)) : Step(toggle(W))

\* visibilitychange: document.hidden is h when the handler runs (the event
\* may also find the tab as the handler last saw it).
VisibilityChange ==
    /\ OnVisibilityChange \in browser.listeners
    /\ \E h \in BOOLEAN :
        LET W0 == Begin([World EXCEPT !.browser.hidden = h])
            W1 == visibilityChangeHandler(W0)
        IN  Step(IF ~W0.ghost.tracking \/ ~W0.self.isActive \/ h = browser.hidden
                 THEN W1
                 ELSE IF h
                 THEN [W1 EXCEPT !.ghost.hiddenAt = W0.browser.now]
                 ELSE [W1 EXCEPT !.ghost.resumedAt = W0.browser.now])

\* resize (of the window or of the visual viewport): the window has one of
\* the environment's sizes when the handler runs.
Resize ==
    /\ {OnResize, OnViewportResize} \cap browser.listeners # {}
    /\ \E v \in env.viewports :
            Step(handleResize(Begin([World EXCEPT !.browser.innerWidth = v.w,
                                                  !.browser.innerHeight = v.h])))

MouseMove ==
    /\ OnMouseMove \in browser.listeners
    /\ \E x \in env.pointerXs : Step(mouseMoveHandler(Begin(World), x, 0))

MouseLeave ==
    /\ OnMouseLeave \in browser.listeners
    /\ Step(mouseLeaveHandler(Begin(World)))

MouseEnter ==
    /\ OnMouseEnter \in browser.listeners
    /\ Step(mouseEnterHandler(Begin(World)))

TouchStart ==
    /\ OnTouchStart \in browser.listeners
    /\ Step(touchStartHandler(Begin(World)))

TouchMove ==
    /\ OnTouchMove \in browser.listeners
    /\ \E x \in env.pointerXs : Step(touchMoveHandler(Begin(World), x, 0))

\* touchend runs touchEndHandler and then touchTapHandler, each if it is
\* still registered.
TouchEnd ==
    /\ {OnTouchEnd, OnTouchTap} \cap browser.listeners # {}
    /\ \E W \in Seeded(Begin(World)) :
            LET W1 == IF OnTouchEnd \in browser.listeners
                      THEN touchEndHandler(W) ELSE W
            IN  Step(IF OnTouchTap \in browser.listeners
                     THEN touchTapHandler(W1) ELSE W1)

TouchCancel ==
    /\ OnTouchCancel \in browser.listeners
    /\ Step(touchEndHandler(Begin(World)))

Click ==
    /\ OnClick \in browser.listeners
    /\ \E W \in Seeded(Begin(World)) : Step(clickHandler(W))

\* beforeunload: destroy() once per session.
Destroy ==
    /\ ~ghost.destroyed
    /\ Step(destroy(Begin(World)))

Next ==
    \/ AdvanceTime
    \/ AnimationFrame
    \/ DebounceFire
    \/ Toggle
    \/ VisibilityChange
    \/ Resize
    \/ MouseMove
    \/ MouseLeave
    \/ MouseEnter
    \/ TouchStart
    \/ TouchMove
    \/ TouchEnd
    \/ TouchCancel
    \/ Click
    \/ Destroy

Spec == Init /\ [][Next]_vars

(***************************************************************************)
(* Properties of the pool.                                                 *)
(***************************************************************************)
Pool == self.particlePool

Allocated == 1..Len(Pool.objects)

PreAllocated == PoolSizeFor(self.config)

\* A freshly constructed session (before init()) whose pool is then driven
\* directly: acquire(), release() of any record that is active (what every
\* call site of the engine passes) and releaseAll(), in any order.
MaxPoolSize == 3

PoolConfigs ==
    {[Config("particle-field", "glitter", TRUE, "particles", TRUE, FALSE)
        EXCEPT !.fieldParticleCount = n] : n \in 1..MaxPoolSize}

InitPool ==
    \E cfg \in PoolConfigs :
        LET W == Constructed(cfg, FALSE, "null", 0)
        IN  /\ self = W.self
            /\ browser = W.browser
            /\ ghost = W.ghost
            /\ env = Environment({0}, {}, {})
            /\ attributes = DefaultAttributes

PoolAcquire ==
    \E P \in {acquire(self.particlePool)} :
        Step([World EXCEPT !.self.particlePool = P])

PoolRelease ==
    \E id \in Range(getActive(self.particlePool)) :
        Step([World EXCEPT !.self.particlePool = release(@, id)])

PoolReleaseAll ==
    \E P \in {releaseAll(self.particlePool)} :
        Step([World EXCEPT !.self.particlePool = P])

NextPool ==
    \/ PoolAcquire
    \/ PoolRelease
    \/ PoolReleaseAll

SpecPool == InitPool /\ [][NextPool]_vars

NoDuplicates(s) == \A i, j \in 1..Len(s) : s[i] = s[j] => i = j

TickPending == browser.rafQueue # {}

\* C3: in every reachable state in which the session is Inactive the active
\* entity set is empty, the rocket list is empty and no tick is pending,
\* whatever pointer, touch, click, resize, debounce or visibility events
\* have arrived since it went Inactive.
C3_InactiveIsQuiet ==
    ~self.isActive =>
        /\ getActiveCount(Pool) = 0
        /\ Len(self.rockets) = 0
        /\ ~TickPending
        /\ self.animationFrameId = 0

\* The session was toggled off after its pool had grown; the pointer is in
\* the viewport and the debounce timer of a resize signal that arrived at
\* this instant, after the start of the run, is pending.
C3_Witness ==
    /\ ~self.isActive
    /\ browser.announcement = "disabled"
    /\ Len(Pool.objects) > PreAllocated
    /\ browser.timerQueue # {}
    /\ self.lastResizeTime = browser.now
    /\ browser.now > 0
    /\ self.mouseInViewport

\* C4: stop() is idempotent: from every reachable state, calling it twice
\* leaves the session where one call leaves it, and with a drawing context
\* that is with every record on the free list, no active entity, no rocket,
\* no pending tick and a cleared surface.
C4_StopIdempotent ==
    LET once  == stop(World)
        twice == stop(once)
        P     == once.self.particlePool
    IN  /\ twice = once
        /\ self.ctx =>
                /\ getActiveCount(P) = 0
                /\ getPoolSize(P) = Len(P.objects)
                /\ Len(once.self.rockets) = 0
                /\ once.browser.rafQueue = {}
                /\ once.self.animationFrameId = 0
                /\ once.browser.surface = "blank"

\* A state in which stop() has everything to do: live sparkles, a rocket in
\* flight, a pending tick and a painted surface.
C4_Witness ==
    /\ getActiveCount(Pool) > 0
    /\ Len(self.rockets) > 0
    /\ TickPending
    /\ browser.surface = "drawn"

\* C5: a deactivation (isActive going from true to false) cancels, in the
\* same step, the pending tick and the pending resize-debounce timer, so
\* that no debounce callback can fire afterwards.
C5_DeactivationCancelsCallbacks ==
    [][(self.isActive /\ ~self'.isActive) =>
            (browser'.rafQueue = {} /\ browser'.timerQueue = {})]_vars

\* C6: between a completed init() and destroy(), after every handler a tick
\* is pending exactly when the session is Active and the tab is visible,
\* and there is never more than one tick pending.
C6_TickPendingIffRunning ==
    /\ browser.listeners = Listeners =>
            /\ TickPending <=> (self.isActive /\ ~browser.hidden)
            /\ TickPending <=> self.animationFrameId # 0
            /\ self.animationFrameId # 0 => self.animationFrameId \in browser.rafQueue
    /\ Cardinality(browser.rafQueue) <= 1

\* The user switched the effects on while the tab was hidden, time has
\* passed, and no tick is pending.
C6_Witness ==
    /\ browser.listeners = Listeners
    /\ self.isActive
    /\ browser.hidden
    /\ browser.announcement = "enabled"
    /\ browser.now > 0
    /\ ~TickPending

\* C9: the step in which an Active session's tab becomes hidden cancels the
\* pending tick and leaves isActive, the active set, the free list and the
\* rockets as they were; and no step that ends with the tab hidden performs
\* a physics update or a redraw.
C9_HiddenSuspends ==
    [][/\ (self.isActive /\ ~browser.hidden /\ browser'.hidden) =>
            /\ browser'.rafQueue = {}
            /\ self'.animationFrameId = 0
            /\ self'.isActive
            /\ self'.particlePool = self.particlePool
            /\ self'.rockets = self.rockets
       /\ browser'.hidden => ghost'.log = <<>>]_vars

\* An Active session sits hidden with live entities, one of them a click
\* burst's, for longer than a frame interval without having been updated.
C9_Witness ==
    /\ self.isActive
    /\ browser.hidden
    /\ ~TickPending
    /\ \E id \in Range(Pool.activeParticles) : Pool.objects[id].isExplosion
    /\ browser.now - self.lastUpdateTime >= RESIZE_DEBOUNCE_DELAY

(***************************************************************************)
(* Frame timing at the resolution of the clock: a session in field or      *)
(* trail mode under toggles, visibility changes, clicks and ticks, with    *)
(* the clock moving in steps of any size up to MaxTimingFrames frame       *)
(* intervals.                                                              *)
(***************************************************************************)
MaxTimingFrames == 3

TimingInstants == 0..(MaxTimingFrames * FRAME_DURATION)

TimingConfigs ==
    {Config("particle-field", "glitter", TRUE, "particles", TRUE, FALSE),
     Config("sprinkle-trail", "glitter", FALSE, "particles", TRUE, FALSE)}

InitTiming ==
    PageLoad(TimingConfigs,
             {Environment(TimingInstants, Gaps(TimingInstants), {})}, FALSE, TRUE)

NextTiming ==
    \/ AdvanceTime
    \/ AnimationFrame
    \/ Toggle
    \/ VisibilityChange
    \/ Click

SpecTiming == InitTiming /\ [][NextTiming]_vars

Updates(log) == {i \in 1..Len(log) : log[i] = "update"}

\* C8: a tick with elapsed = now - lastUpdateTime >= FRAME_DURATION runs
\* exactly one physics update, before the redraw, and advances
\* lastUpdateTime by floor(elapsed / FRAME_DURATION) * FRAME_DURATION, so
\* that 0 <= now - lastUpdateTime < FRAME_DURATION afterwards; a tick with
\* elapsed < FRAME_DURATION only redraws and leaves lastUpdateTime alone.
C8_WholeIntervalAdvance ==
    [][AnimationFrame =>
        LET elapsed == browser.now - self.lastUpdateTime
        IN  IF elapsed >= FRAME_DURATION
            THEN /\ ghost'.log = <<"update", "draw">>
                 /\ self'.lastUpdateTime =
                        self.lastUpdateTime
                            + (elapsed \div FRAME_DURATION) * FRAME_DURATION
                 /\ 0 <= browser'.now - self'.lastUpdateTime
                 /\ browser'.now - self'.lastUpdateTime < FRAME_DURATION
            ELSE /\ ghost'.log = <<"draw">>
                 /\ self'.lastUpdateTime = self.lastUpdateTime]_vars

\* A tick has just run a physics update, not the first of the run, at a
\* time that is not a whole number of frame intervals after the previous
\* one: the fraction is carried over in lastUpdateTime.
C8_Witness ==
    /\ ghost.log = <<"update", "draw">>
    /\ browser.now - self.lastUpdateTime > 0
    /\ self.lastUpdateTime >= 2 * FRAME_DURATION

\* C10: the step that resumes an Active session from a hidden tab sets
\* lastUpdateTime to the resume time and runs no physics update; after it,
\* however long the tab was hidden, no physics update runs earlier than
\* FRAME_DURATION after the resume time, and no step runs more than one
\* physics update.
C10_ResumeWithoutCatchUp ==
    [][/\ (self.isActive /\ browser.hidden /\ ~browser'.hidden) =>
            /\ self'.lastUpdateTime = browser'.now
            /\ Updates(ghost'.log) = {}
            /\ browser'.rafQueue # {}
       /\ Updates(ghost'.log) # {} =>
            /\ Cardinality(Updates(ghost'.log)) = 1
            /\ ghost.resumedAt >= 0 =>
                    browser'.now >= ghost.resumedAt + FRAME_DURATION]_vars

\* The tab was hidden for two frame intervals or more, and the first
\* physics update since has just run, one frame interval after the resume.
C10_Witness ==
    /\ ghost.hiddenAt >= 0
    /\ ghost.resumedAt - ghost.hiddenAt >= 2 * FRAME_DURATION
    /\ browser.now = ghost.resumedAt + FRAME_DURATION
    /\ Updates(ghost.log) # {}

(***************************************************************************)
(* Frame pacing: an Active, visible session driven for ten seconds by a    *)
(* display that refreshes at a fixed or at a varying rate.                 *)
(***************************************************************************)
TEN_SECONDS == Ms(10000)

\* Tick sources: refreshes half a frame or a whole frame interval apart in
\* any mix (a display of 60 Hz or faster), or a steady 40 Hz display.
TickSources == {{1, FRAME_DURATION}, {FRAME_DURATION + 1}}

PacingConfigs == {Config("particle-field", "glitter", TRUE, "particles", TRUE, FALSE)}

InitPacing ==
    /\ PageLoad(PacingConfigs,
                {Environment(0..TEN_SECONDS, steps, {}) : steps \in TickSources},
                TRUE, FALSE)
    /\ self.isActive
    /\ ~browser.hidden

NextPacing == DisplayRefresh

SpecPacing == InitPacing /\ [][NextPacing]_vars

\* C7 as stated: after a 10-second run the number of physics updates is
\* within one of 600, whatever the tick source.
C7_WithinOneOf600 ==
    browser.now = TEN_SECONDS =>
        /\ ghost.physicsUpdates >= 10 * TARGET_FPS - 1
        /\ ghost.physicsUpdates <= 10 * TARGET_FPS + 1

\* C7 amended: at every moment of the run the number of physics updates is
\* at most the number of whole frame intervals elapsed, whatever the tick
\* source; and when no two successive ticks were more than one frame
\* interval apart it is at most one short of that number, hence within one
\* of 600 after ten seconds.
C7_PacedByTicks ==
    LET due == browser.now \div FRAME_DURATION
    IN  /\ ghost.physicsUpdates <= due
        /\ ~ghost.slowTick => ghost.physicsUpdates >= due - 1
        /\ (~ghost.slowTick /\ browser.now = TEN_SECONDS) =>
                /\ ghost.physicsUpdates >= 10 * TARGET_FPS - 1
                /\ ghost.physicsUpdates <= 10 * TARGET_FPS + 1

\* Ten seconds of refreshes no more than a frame interval apart, the last
\* one a redraw-only tick, have run 599 physics updates.
C7_Witness ==
    /\ browser.now = TEN_SECONDS - 1
    /\ ~ghost.slowTick
    /\ ghost.physicsUpdates = 10 * TARGET_FPS - 1
    /\ ghost.log = <<"draw">>

(***************************************************************************)
(* The trail: a session in trail mode, on a pointer or a touch device,     *)
(* under pointer and touch moves to positions closer to and farther from   *)
(* each other than the spacing, clicks and taps, toggles and ticks.        *)
(***************************************************************************)
MaxTrailParticles == 2

\* Distances 4 (below both spacings), 8 (the pointer spacing) and 12 (the
\* touch spacing).
TrailPointerXs == {0, 4, 12}

TrailInstants == {0, FRAME_DURATION}

TrailModeConfig(click, mobile) ==
    [Config("sprinkle-trail", "glitter", FALSE, "particles", click, mobile)
        EXCEPT !.maxParticles = MaxTrailParticles]

\* Without click bursts the pointer visits all three positions; with them
\* it alternates between the two that are farthest apart.
InitTrail ==
    \/ PageLoad({TrailModeConfig(FALSE, mobile) : mobile \in BOOLEAN},
                {Environment(TrailInstants, Gaps(TrailInstants), TrailPointerXs)},
                FALSE, FALSE)
    \/ PageLoad({TrailModeConfig(TRUE, FALSE)},
                {Environment(TrailInstants, Gaps(TrailInstants), {0, 12})},
                FALSE, FALSE)

NextTrail ==
    \/ AdvanceTime
    \/ AnimationFrame
    \/ Toggle
    \/ MouseMove
    \/ TouchMove
    \/ TouchEnd
    \/ Click

SpecTrail == InitTrail /\ [][NextTrail]_vars

TrailMode == self.config.experienceMode = "sprinkle-trail"

\* The step is a pointer or touch move to (x, 0).
MovedTo(x) ==
    \/ OnMouseMove \in browser.listeners /\ Step(mouseMoveHandler(Begin(World), x, 0))
    \/ OnTouchMove \in browser.listeners /\ Step(touchMoveHandler(Begin(World), x, 0))

\* C11: while Active in trail mode, a pointer or touch move to a position
\* whose distance from (lastParticleX, lastParticleY) is below the minimum
\* spacing changes neither the pool nor the last-spawn position; a move at
\* the spacing or beyond acquires exactly one entity, which is the last of
\* the active set and lies at the pointer position, the rest of the active
\* set being the previous one with at most its oldest entity released, and
\* sets the last-spawn position to the pointer position.
C11_TrailSpacing ==
    [][\A x \in env.pointerXs :
        (self.isActive /\ TrailMode /\ MovedTo(x)) =>
            LET dx  == x - self.lastParticleX
                dy  == 0 - self.lastParticleY
                ms  == IF self.config.isMobile THEN 12 ELSE 8
                old == Pool.activeParticles
                new == self'.particlePool.activeParticles
            IN  IF dx * dx + dy * dy < ms * ms
                THEN /\ self'.particlePool = self.particlePool
                     /\ self'.lastParticleX = self.lastParticleX
                     /\ self'.lastParticleY = self.lastParticleY
                ELSE /\ self'.lastParticleX = x
                     /\ self'.lastParticleY = 0
                     /\ Len(new) > 0
                     /\ \/ Front(new) = old
                        \/ old # <<>> /\ Front(new) = Tail(old)
                     /\ Last(new) \notin Range(Front(new))
                     /\ self'.particlePool.objects[Last(new)].x = x
                     /\ self'.particlePool.objects[Last(new)].y = 0
                     /\ self'.particlePool.objects[Last(new)].active
                     /\ Len(self'.particlePool.objects) <= Len(Pool.objects) + 1]_vars

\* A trail of two entities: one spawned at x = 12 and then, exactly one
\* pointer spacing away from it, the last one at x = 4.
C11_Witness ==
    /\ self.isActive
    /\ TrailMode
    /\ getActiveCount(Pool) = 2
    /\ Pool.objects[Pool.activeParticles[1]].x = 12
    /\ Pool.objects[Pool.activeParticles[2]].x = 4
    /\ self.lastParticleX = 4

\* C12: in trail mode the number of active entities never exceeds
\* maxParticles, whatever pointer moves, clicks, taps and ticks occur.
C12_TrailLimit ==
    TrailMode => getActiveCount(Pool) <= self.config.maxParticles

(***************************************************************************)
(* Properties of the physics updates.                                      *)
(***************************************************************************)
Occurrences(s, e) == Cardinality({i \in 1..Len(s) : s[i] = e})

\* C13: in every update style, a tick with a physics update takes one
\* tick's decay off the life of every explosion-flagged entity that is
\* active; the opacity the update leaves is never negative and never above
\* the opacity the previous update left; the entity stays active only
\* while life is left (a fireworks sparkle may also be released for having
\* fallen out of view) and is otherwise released, appearing once on the
\* free list.  No active explosion-flagged entity has more than its
\* initial life left, so each is released within that many ticks.
C13_ExplosionDecay ==
    [][(AnimationFrame /\ Updates(ghost'.log) # {}) =>
        \A id \in Range(Pool.activeParticles) :
            LET o     == Pool.objects[id]
                o1    == self'.particlePool.objects[id]
                stays == id \in Range(self'.particlePool.activeParticles)
            IN  o.isExplosion =>
                    /\ o.explosionLife <= ExplosionLifeInit
                    /\ o1.explosionLife = o.explosionLife - 1
                    /\ o1.opacity >= 0
                    /\ o.explosionLife < ExplosionLifeInit => o1.opacity <= o.opacity
                    /\ stays => o1.explosionLife > 0
                    /\ (~stays /\ self.config.fieldParticleStyle # "fireworks")
                            => o1.explosionLife <= 0
                    /\ ~stays => /\ Occurrences(self'.particlePool.pool, id) = 1
                                 /\ ~o1.active]_vars

\* A tick has just released a burst entity whose life ran out, its opacity
\* at zero, while a younger one of a later burst lives on.
C13_Witness ==
    /\ Updates(ghost.log) # {}
    /\ \E id \in Range(Pool.pool) :
            /\ Pool.objects[id].isExplosion
            /\ Pool.objects[id].explosionLife = 0
            /\ Pool.objects[id].opacity = 0
    /\ \E id \in Range(Pool.activeParticles) :
            /\ Pool.objects[id].isExplosion
            /\ Pool.objects[id].explosionLife = ExplosionLifeInit - 1

(***************************************************************************)
(* Seeding the field: sessions in field mode, of every style, whose window *)
(* takes two sizes and whose Math.random() follows every short stream,     *)
(* under toggles, clicks, resizes, debounce timers and ticks.              *)
(***************************************************************************)
SeedStreamLen == 2

SeedStreams == UNION {[1..n -> 0..(RandomDen - 1)] : n \in {SeedStreamLen}}

SeedViewports ==
    {Viewport(ViewWidth, ViewHeight), Viewport(ViewWidth \div 2, ViewHeight \div 2)}

SeedInstants == {0, FRAME_DURATION, RESIZE_DEBOUNCE_DELAY}

SeedConfigs ==
    {Config("particle-field", st, TRUE, "particles", TRUE, FALSE) : st \in FieldStyles}

InitSeed ==
    PageLoad(SeedConfigs,
             {[Environment(SeedInstants, Gaps(SeedInstants), PointerXs)
                  EXCEPT !.randoms = SeedStreams, !.viewports = SeedViewports]},
             FALSE, FALSE)

NextSeed ==
    \/ AdvanceTime
    \/ AnimationFrame
    \/ DebounceFire
    \/ Toggle
    \/ Resize
    \/ Click

SpecSeed == InitSeed /\ [][NextSeed]_vars

FieldMode == self.config.experienceMode = "particle-field"

\* The field as initializeParticleField() leaves it, for a viewport of the
\* given width and height.
FieldSeededIn(width, height) ==
    LET cfg    == self.config
        active == getActive(Pool)
    IN  IF cfg.fieldParticleStyle = "fireworks"
        THEN /\ active = <<>>
             /\ self.rockets = <<>>
             /\ self.rocketLaunchTimer = 0
        ELSE /\ Len(active) = cfg.fieldParticleCount
             /\ \A i \in 1..Len(active) :
                    LET o == Pool.objects[active[i]]
                    IN  /\ o.active /\ ~o.isExplosion
                        /\ 0 <= o.x /\ o.x < width
                        /\ 0 <= o.y /\ o.y < height
                        /\ cfg.fieldParticleStyle \in {"glitter", "pride-confetti", "love-bomb"}
                            => /\ (6 * OpacityScale) \div 10 <= o.opacity
                               /\ o.opacity <= OpacityScale

SeededInMeasuredViewport == FieldSeededIn(self.logicalWidth, self.logicalHeight)

SeededInWindow == FieldSeededIn(browser.innerWidth, browser.innerHeight)

MeasuredIsWindow ==
    /\ self.logicalWidth = browser.innerWidth
    /\ self.logicalHeight = browser.innerHeight

\* The steps that re-seed the field.
ReseedByToggle == Toggle /\ FieldMode /\ ~self.isActive

ReseedBySettle == DebounceFire /\ FieldMode /\ self.isActive

\* C14 (as stated): every re-seed of the field (construction with effects
\* enabled, toggle-on, settle of a debounced resize while Active) leaves,
\* for every style but fireworks, exactly fieldParticleCount active
\* non-explosion entities with 0 <= x < width, 0 <= y < height of the
\* window as it is then (glitter: opacity in [0.6, 1.0]), and for fireworks
\* no active entity, no rocket and a launch timer of 0.
C14_SeedInCurrentViewport ==
    /\ (FieldMode /\ self.isActive) => SeededInWindow
    /\ [][(ReseedByToggle \/ ReseedBySettle) => SeededInWindow']_vars

\* C14 (amended): every re-seed releases whatever was active and leaves the
\* seeded field within the viewport as calculateCanvasSize() measured it
\* last (logicalWidth x logicalHeight); construction and the resize settle
\* measure the window first, a toggle-on does not.
C14_SeedInMeasuredViewport ==
    /\ (FieldMode /\ self.isActive) => SeededInMeasuredViewport /\ MeasuredIsWindow
    /\ [][/\ ReseedByToggle => SeededInMeasuredViewport'
          /\ ReseedBySettle => SeededInMeasuredViewport' /\ MeasuredIsWindow']_vars

\* The session was switched on while a resize to a narrower window awaited
\* its debounce timer: a seeded entity lies right of the window.
C14_Witness ==
    /\ FieldMode /\ self.isActive
    /\ self.config.fieldParticleStyle = "glitter"
    /\ browser.announcement = "enabled"
    /\ self.resizeDebounceTimer \in TimerIds(World)
    /\ browser.innerWidth < self.logicalWidth
    /\ SeededInMeasuredViewport
    /\ \E id \in Range(Pool.activeParticles) : Pool.objects[id].x >= browser.innerWidth

(***************************************************************************)
(* Resizing: sessions under resize signals 50 ms or a multiple of 50 ms    *)
(* apart, from the time origin on, with the debounce timers they arm, the  *)
(* ticks that fade the canvas, and toggles.                                *)
(***************************************************************************)
ResizeStep == Ms(50)

MaxResizeSteps == 11

ResizeInstants == {k * ResizeStep : k \in 0..MaxResizeSteps}

ResizeConfigs ==
    {Config("particle-field", "glitter", FALSE, "particles", FALSE, FALSE),
     Config("sprinkle-trail", "glitter", FALSE, "particles", FALSE, FALSE)}

InitResize ==
    PageLoad(ResizeConfigs,
             {Environment(ResizeInstants, Gaps(ResizeInstants), PointerXs)},
             FALSE, FALSE)

NextResize ==
    \/ AdvanceTime
    \/ AnimationFrame
    \/ DebounceFire
    \/ Toggle
    \/ Resize

SpecResize == InitResize /\ [][NextResize]_vars

\* handleResize() has run before: it is the only writer of the timer id.
ResizedBefore == self.resizeDebounceTimer # 0

\* The time since the resize signal before the one handled now.
SinceLastResize == browser.now - self.lastResizeTime

\* The debounce timer the last resize signal armed, if it is still pending.
PendingDebounce == {t \in browser.timerQueue : t.id = self.resizeDebounceTimer}

\* C15: when a resize signal arrives less than 150 ms after the one before
\* it, the opacity target is 0.3 once the signal is handled, and the timer
\* of the debounced callback is then still pending, due 250 ms later.
C15_RapidResizeDims ==
    [][(Resize /\ ResizedBefore /\ SinceLastResize < RAPID_RESIZE_WINDOW)
        => /\ self'.targetOpacity = DIM_OPACITY
           /\ self'.isResizing
           /\ \E t \in browser'.timerQueue :
                /\ t.id = self'.resizeDebounceTimer
                /\ t.due = browser'.now + RESIZE_DEBOUNCE_DELAY]_vars

\* Two signals arrived 50 ms apart, the first 150 ms or more after the time
\* origin: the target is 0.3 while the canvas is still fully opaque and the
\* timer is pending.
C15_Witness ==
    /\ self.lastResizeTime >= RAPID_RESIZE_WINDOW + ResizeStep
    /\ browser.now = self.lastResizeTime
    /\ self.targetOpacity = DIM_OPACITY
    /\ self.canvasOpacity = OpacityScale
    /\ self.isResizing /\ self.isFading
    /\ PendingDebounce # {}

\* C16: a resize signal that is the first of the session, or that arrives
\* 150 ms or more after the one before it, never sets the opacity target
\* to 0.3.
C16_IsolatedResizeKeepsTarget ==
    [][(Resize /\ (~ResizedBefore \/ SinceLastResize >= RAPID_RESIZE_WINDOW))
        => (self'.targetOpacity = DIM_OPACITY => self.targetOpacity = DIM_OPACITY)]_vars

\* A resize signal leaves exactly its own timer pending, due 250 ms later.
ResizeRearms ==
    Resize => browser'.timerQueue =
                {[id |-> self'.resizeDebounceTimer,
                  due |-> browser'.now + RESIZE_DEBOUNCE_DELAY]}

\* The debounce callback runs once for the timer of the last signal, 250 ms
\* or more after that signal, measures the window and leaves no timer.
SettleOnce ==
    DebounceFire =>
        /\ PendingDebounce = browser.timerQueue
        /\ browser.now >= self.lastResizeTime + RESIZE_DEBOUNCE_DELAY
        /\ browser'.timerQueue = {}
        /\ browser'.surface = "blank"
        /\ MeasuredIsWindow'
        /\ (FieldMode /\ self.isActive) => SeededInMeasuredViewport'

\* C17: every resize signal cancels the pending debounce timer and arms a
\* new one, so at most one timer is pending at any time, due 250 ms after
\* the last signal; the canvas is measured and the field re-seeded once per
\* burst of signals, when that timer fires.
C17_ResizeDebounce ==
    /\ [](/\ Cardinality(browser.timerQueue) <= 1
          /\ \A t \in browser.timerQueue :
                /\ t.id = self.resizeDebounceTimer
                /\ t.due = self.lastResizeTime + RESIZE_DEBOUNCE_DELAY)
    /\ [][ResizeRearms /\ SettleOnce]_vars

\* A burst whose last signal came 200 ms after the time origin has settled:
\* the callback ran 250 ms after that signal, no timer is left, and the
\* canvas, dimmed during the burst, is fading back in.
C17_Witness ==
    /\ ResizedBefore
    /\ browser.timerQueue = {}
    /\ self.lastResizeTime = RAPID_RESIZE_WINDOW + ResizeStep
    /\ browser.now = self.lastResizeTime + RESIZE_DEBOUNCE_DELAY
    /\ ~self.isResizing /\ self.targetOpacity = OpacityScale
    /\ self.isFading /\ self.canvasOpacity < OpacityScale
    /\ ghost.log = <<>>

(***************************************************************************)
(* Fading: a session whose display refreshes every half or whole frame    *)
(* interval, with resize signals during the first frames, timers that run  *)
(* when they are due, and enough frames for the canvas to fade back in.    *)
(***************************************************************************)
MaxFadeFrames == 160

FadeInstants == 0..(MaxFadeFrames * FRAME_DURATION)

\* The display refreshes every half or every whole frame interval.
FadeSteps == {FRAME_DURATION \div 2, FRAME_DURATION}

\* The last instant at which a resize signal arrives.
LastSignal == RAPID_RESIZE_WINDOW + FRAME_DURATION

FadeConfigs == {Config("sprinkle-trail", "glitter", FALSE, "particles", FALSE, FALSE)}

InitFade ==
    PageLoad(FadeConfigs, {Environment(FadeInstants, FadeSteps, PointerXs)},
             FALSE, FALSE)

\* The display refreshes; a timer that is due runs first.
FadeTick ==
    /\ \A t \in browser.timerQueue : browser.now < t.due
    /\ DisplayRefresh

EarlyResize == browser.now <= LastSignal /\ Resize

NextFade ==
    \/ FadeTick
    \/ DebounceFire
    \/ EarlyResize

\* While the session is active and visible the browser keeps calling the
\* requested frame, and it runs every timer that is due.
SpecFade ==
    /\ InitFade /\ [][NextFade]_vars
    /\ WF_vars(FadeTick) /\ WF_vars(DebounceFire)

Dimmed == self.targetOpacity = DIM_OPACITY

Restored ==
    /\ self.targetOpacity = OpacityScale
    /\ self.canvasOpacity = OpacityScale
    /\ ~self.isFading /\ ~self.isResizing

\* C18: the debounce callback returns the opacity target to 1, and in a
\* session that is active and visible, so that its ticks keep running, a
\* dimmed canvas is eventually at opacity exactly 1 with fading stopped.
C18_DimDoesNotPersist ==
    /\ [][DebounceFire => self'.targetOpacity = OpacityScale /\ ~self'.isResizing]_vars
    /\ (Dimmed /\ self.isActive /\ self.isTabVisible) ~> Restored

\* After a dip by two signals, the first 150 ms or more after the time
\* origin, the callback has run and the canvas has faded back in to within
\* 2% of full opacity, one step before it snaps to 1.
C18_Witness ==
    /\ self.isActive /\ self.isTabVisible
    /\ self.lastResizeTime >= RAPID_RESIZE_WINDOW
    /\ browser.timerQueue = {}
    /\ self.targetOpacity = OpacityScale /\ self.isFading
    /\ self.canvasOpacity < OpacityScale
    /\ (OpacityScale - self.canvasOpacity) * 100 < 2 * OpacityScale

(***************************************************************************)
(* Snow: a session in the snow style over several frames, its flakes       *)
(* falling out of a low viewport, with click bursts and a pointer that     *)
(* enters and leaves.                                                      *)
(***************************************************************************)
MaxSnowFrames == 5

SnowInstants == {k * FRAME_DURATION : k \in 0..MaxSnowFrames}

SnowConfigs == {Config("particle-field", "snow", TRUE, "particles", FALSE, FALSE)}

InitSnow ==
    PageLoad(SnowConfigs,
             {[Environment(SnowInstants, {FRAME_DURATION}, PointerXs)
                  EXCEPT !.randoms = SeedStreams]},
             FALSE, FALSE)

NextSnow ==
    \/ AdvanceTime
    \/ AnimationFrame
    \/ MouseMove
    \/ MouseLeave
    \/ Click

SpecSnow == InitSnow /\ [][NextSnow]_vars

SnowStyle == FieldMode /\ self.config.fieldParticleStyle = "snow"

\* The velocity and height of an ambient flake after gravity and the move
\* of one tick, with no pointer over the page.
FallenVy(o) == IF o.vy < o.fallSpeed THEN o.vy + Gravity ELSE o.vy

FallenY(o) == o.y + FallenVy(o)

\* C19: in the snow style a physics tick releases no non-explosion entity
\* and leaves none lower than the viewport height plus its size: one that
\* the tick's move takes beyond that line stays in the active set and is
\* repositioned to y < 0, with a new x in [0, width) and a new positive
\* vertical velocity.
C19_SnowRespawn ==
    [][(AnimationFrame /\ SnowStyle /\ Updates(ghost'.log) # {}) =>
        \A id \in Range(Pool.activeParticles) :
            LET o == Pool.objects[id]
                n == Pool.objects[id]'
            IN  ~o.isExplosion =>
                /\ id \in Range(Pool.activeParticles')
                /\ Occurrences(Pool.pool', id) = 0
                /\ n.active /\ ~n.isExplosion
                /\ n.size = o.size /\ n.fallSpeed = o.fallSpeed
                /\ n.y <= self.logicalHeight + o.size
                /\ ~self.mouseInViewport =>
                    IF FallenY(o) > self.logicalHeight + o.size
                    THEN /\ n.y < 0
                         /\ 0 <= n.x /\ n.x < self.logicalWidth
                         /\ n.vy > 0
                    ELSE /\ n.y = FallenY(o)
                         /\ n.x = o.x
                         /\ n.vy = FallenVy(o)]_vars

\* A physics update has just respawned a flake over the top edge: no
\* pointer is over the page, the flake is at its full distance above the
\* edge or higher and falls at less than its terminal velocity.
C19_Witness ==
    /\ SnowStyle /\ self.isActive /\ ~self.mouseInViewport
    /\ Updates(ghost.log) # {}
    /\ \E id \in Range(Pool.activeParticles) :
            LET o == Pool.objects[id]
            IN  /\ ~o.isExplosion
                /\ o.y <= 0 - o.size
                /\ o.vy > 0 /\ o.vy <= o.fallSpeed

(***************************************************************************)
(* Page loads: sessions that observe their page load, with every stored    *)
(* preference (none, 'true', 'false', or another string), default and      *)
(* reduced-motion setting, followed by ticks, pointer moves, clicks,       *)
(* visibility changes and toggles.                                         *)
(***************************************************************************)
LoadStoredStates == StoredStates \cup {"1"}

LoadInstants == {0, FRAME_DURATION}

LoadConfigs ==
    {Config("particle-field", "glitter", TRUE, "particles", TRUE, mobile) :
        mobile \in BOOLEAN}
    \cup {Config("sprinkle-trail", "glitter", FALSE, "particles", FALSE, FALSE)}

InitLoad ==
    PageLoad(LoadConfigs,
             {[Environment(LoadInstants, Gaps(LoadInstants), PointerXs)
                  EXCEPT !.stored = LoadStoredStates, !.recordsLoad = TRUE]},
             FALSE, FALSE)

NextLoad ==
    \/ AdvanceTime
    \/ AnimationFrame
    \/ VisibilityChange
    \/ MouseMove
    \/ Click
    \/ Toggle

SpecLoad == InitLoad /\ [][NextLoad]_vars

\* init() ran to its end (it installed the listeners), without a
\* reduced-motion preference, and the toggle has not been used since.
LoadedUntouched ==
    /\ ghost.load.recorded
    /\ browser.listeners = Listeners
    /\ ~ghost.load.prefersReducedMotion
    /\ browser.announcement = ""

\* C20: after construction (init not skipped, no reduced-motion preference)
\* and until the first toggle, the Active flag is "the stored preference is
\* 'true'" when a preference was stored and the configured
\* enabled-by-default flag when none was; a stored preference is kept as it
\* was found.
C20_InitialActiveFlag ==
    LoadedUntouched =>
        /\ self.isActive = IF ghost.load.stored # "null"
                           THEN ghost.load.stored = "true"
                           ELSE ghost.load.enabledByDefault
        /\ browser.sessionStorage = IF ghost.load.stored # "null"
                                    THEN ghost.load.stored
                                    ELSE BoolStr(ghost.load.enabledByDefault)

\* A session loaded with the stored preference '1' and effects enabled by
\* default is inactive, and its first tick has not come.
C20_Witness ==
    /\ LoadedUntouched
    /\ ghost.load.stored = "1"
    /\ ghost.load.enabledByDefault
    /\ ~self.isActive
    /\ browser.rafQueue = {}
    /\ browser.now = FRAME_DURATION

\* init() ran to its end under a reduced-motion preference, and the toggle
\* has not been used since.
ReducedUntouched ==
    /\ ghost.load.recorded
    /\ browser.listeners = Listeners
    /\ ghost.load.prefersReducedMotion
    /\ browser.announcement = ""

\* C21: under a reduced-motion preference the session is inactive after
\* construction whatever the stored preference and the default are, with no
\* active entity and no tick requested, and stays so until the toggle is
\* used; that toggle activates it, seeds the field in field mode and, the
\* tab being visible, requests the first tick.
C21_ReducedMotionOptIn ==
    /\ [](ReducedUntouched =>
            /\ ~self.isActive
            /\ getActiveCount(Pool) = 0
            /\ self.animationFrameId = 0
            /\ browser.rafQueue = {})
    /\ [][(Toggle /\ ReducedUntouched) =>
            /\ self'.isActive
            /\ browser'.sessionStorage = "true"
            /\ FieldMode => getActiveCount(Pool') = self.config.fieldParticleCount
            /\ self.isTabVisible =>
                    /\ self'.animationFrameId \in browser'.rafQueue
                    /\ ghost'.log # <<>>]_vars

\* A session loaded in field mode with the stored preference 'true' under
\* reduced motion has been switched on by its toggle: the field is seeded
\* and a tick is pending.
C21_Witness ==
    /\ ghost.load.recorded /\ ghost.load.prefersReducedMotion
    /\ ghost.load.stored = "true"
    /\ browser.announcement = "enabled"
    /\ FieldMode /\ self.isActive
    /\ getActiveCount(Pool) = self.config.fieldParticleCount
    /\ self.animationFrameId \in browser.rafQueue
    /\ browser.now = 0

(***************************************************************************)
(* Small viewports: sessions on a mobile device that observe their page    *)
(* load, with and without the disable-on-mobile flag, under every event of *)
(* the page.                                                               *)
(***************************************************************************)
InitSkip ==
    PageLoad(MobileConfigs,
             {[Environment(Instants, Gaps(Instants), PointerXs)
                  EXCEPT !.stored = LoadStoredStates, !.recordsLoad = TRUE]},
             FALSE, FALSE)

SpecSkip == InitSkip /\ [][Next]_vars

\* init() returned at its first statement.
Skipped ==
    /\ ghost.load.recorded
    /\ self.config.isMobile
    /\ ghost.load.disableOnMobile

\* C22: with the disable-on-mobile flag set on a mobile viewport, the
\* session has no drawing context, no toggle control and no listener, the
\* stored preference is as the page load found it, and the session is
\* inactive with no tick or timer pending and no active entity, in every
\* state any event of the page leads to.
C22_SkippedStaysInert ==
    Skipped =>
        /\ ~self.ctx /\ ~self.button
        /\ ~browser.buttonMounted /\ browser.listeners = {}
        /\ browser.surface = "none"
        /\ browser.sessionStorage = ghost.load.stored
        /\ browser.ariaPressed = "none" /\ browser.announcement = ""
        /\ ~self.isActive /\ ~self.isInitialized
        /\ self.animationFrameId = 0 /\ browser.rafQueue = {}
        /\ browser.timerQueue = {}
        /\ getActiveCount(Pool) = 0

\* A skipped session whose stored preference was 'true' and whose default
\* enables the effects, after time has passed and the page has unloaded.
C22_Witness ==
    /\ Skipped
    /\ ghost.load.stored = "true" /\ ghost.load.enabledByDefault
    /\ ~ghost.load.prefersReducedMotion
    /\ browser.now = RESIZE_DEBOUNCE_DELAY
    /\ ghost.destroyed

\* destroy() has run on a session whose init() was not skipped.
Destroyed == ghost.destroyed /\ self.ctx

\* C23: destroy() of an initialized session removes every listener the
\* session registered on the document, the window and the visual viewport,
\* cancels the pending tick and the pending resize-debounce timer and takes
\* the toggle control off the page; from then on no step of the page
\* changes the session.
C23_DestroyDetaches ==
    /\ [](Destroyed =>
            /\ browser.listeners = {}
            /\ browser.rafQueue = {}
            /\ browser.timerQueue = {}
            /\ ~browser.buttonMounted
            /\ self.animationFrameId = 0
            /\ ~ghost.threw)
    /\ [][Destroyed => self' = self]_vars
    /\ [][Destroyed => (browser'.now # browser.now /\ AdvanceTime)]_vars

\* An active, visible session with a resize signal handled in the same
\* instant was destroyed: its tick and its debounce timer were pending.
C23_Witness ==
    /\ Destroyed
    /\ self.isActive /\ ~browser.hidden
    /\ self.resizeDebounceTimer # 0
    /\ self.lastResizeTime = 0 /\ browser.now < RESIZE_DEBOUNCE_DELAY
    /\ browser.timerQueue = {} /\ browser.rafQueue = {}

(***************************************************************************)
(* Rockets at the program's scale: a fireworks session at its fastest and  *)
(* at a slower launch rate, over enough ticks for the first rockets to     *)
(* burn out, with single and double launches of the slowest and of the     *)
(* fastest rocket.  The model's rocket speed is the number of ticks        *)
(* gravity takes to bring the rocket to its apex threshold.                *)
(***************************************************************************)
MIN_LAUNCH_INTERVAL == 25

\* A launch interval that falls to 20 ticks at full attraction.
launchIntervalFor_fast(attraction) ==
    Max(20, (180 * 100 - attraction * 160 + 50) \div 100)

\* launchInterval for fieldMouseAttraction given in hundredths:
\* Math.max(25, Math.round(180 - attraction * 155)).
launchIntervalFor(attraction) ==
    Max(MIN_LAUNCH_INTERVAL, (180 * 100 - attraction * 155 + 50) \div 100)

\* The ticks after which vy, from -speed (in hundredths) and rising by 0.09
\* per tick, has reached -0.3.
ApexTicks(speed) == CeilDiv(speed - 30, 9)

\* speed = 7 + Math.random() * 5: from 7.00 to 11.99.
RocketSpeeds == {ApexTicks(700), ApexTicks(1199)}

\* A start so far below the top that no rocket leaves the viewport.
RocketStartY == 9111

MaxRocketTicks == 160

RocketInstants == {k * FRAME_DURATION : k \in 0..MaxRocketTicks}

RocketConfigs ==
    {[Config("particle-field", "fireworks", FALSE, "particles", FALSE, FALSE)
        EXCEPT !.fieldParticleCount = 1,
               !.launchInterval = launchIntervalFor(a)] : a \in {75, 100}}

InitRockets ==
    PageLoad(RocketConfigs,
             {[Environment(RocketInstants, {FRAME_DURATION}, PointerXs)
                  EXCEPT !.rocketDraws = [speed : RocketSpeeds, y : {RocketStartY}]]},
             FALSE, FALSE)

NextRockets == DisplayRefresh

SpecRockets == InitRockets /\ [][NextRockets]_vars

FireworksStyle == FieldMode /\ self.config.fieldParticleStyle = "fireworks"

\* C24: in the fireworks style there are never more than 12 rockets at a
\* time, at the fastest launch rate as at slower ones, with double launches.
C24_RocketCap == FireworksStyle => Len(self.rockets) <= MAX_ROCKETS

\* Twelve rockets are in flight at once.
C24_Witness == FireworksStyle /\ Len(self.rockets) = MAX_ROCKETS

(***************************************************************************)
(* Fireworks at a small scale: launches every other tick of rockets that   *)
(* reach their apex in the tick of their launch or three ticks later, from *)
(* starts so near the top that they leave the viewport first or far from   *)
(* it, with bursts of two sparkles or none, and clicks.                    *)
(***************************************************************************)
MaxFireworkFrames == 6

FireworkInstants == {k * FRAME_DURATION : k \in 0..MaxFireworkFrames}

FireworkDraws == [speed : {1, 4}, y : {1, 9}]

FireworkConfigs ==
    {[Config("particle-field", "fireworks", TRUE, "particles", FALSE, FALSE)
        EXCEPT !.fieldParticleCount = n] : n \in {3, 8}}

InitFireworks ==
    PageLoad(FireworkConfigs,
             {[Environment(FireworkInstants, {FRAME_DURATION}, PointerXs)
                  EXCEPT !.rocketDraws = FireworkDraws]},
             FALSE, FALSE)

NextFireworks ==
    \/ AdvanceTime
    \/ AnimationFrame
    \/ Click

SpecFireworks == InitFireworks /\ [][NextFireworks]_vars

\* A rocket after the gravity and the move of one tick.
Risen(r) == [vy |-> r.vy + 1, y |-> r.y + r.vy + 1]

AtApex(r) == Risen(r).vy >= 0

\* The rockets of R that one tick leaves in flight, in their order.
RECURSIVE StillFlying(_)
StillFlying(R) ==
    IF R = <<>> THEN <<>>
    ELSE (IF AtApex(Head(R)) \/ Risen(Head(R)).y < 0
          THEN <<>> ELSE <<Risen(Head(R))>>) \o StillFlying(Tail(R))

\* The highest speed a launch may draw.
TopSpeed == CHOOSE v \in {d.speed : d \in env.rocketDraws} :
                \A d \in env.rocketDraws : d.speed <= v

MaxClickFrames == 2

ClickInstants == {k * FRAME_DURATION : k \in 0..MaxClickFrames}

ClickConfigs ==
    {Config("particle-field", st, click, "particles", ~click, FALSE) :
        st \in {"glitter", "snow", "fireworks"}, click \in BOOLEAN}
    \cup {Config("sprinkle-trail", "glitter", ~click, sp, click, FALSE) :
        sp \in {"particles", "emoji"}, click \in BOOLEAN}

InitClick ==
    PageLoad(ClickConfigs,
             {Environment(ClickInstants, {FRAME_DURATION}, PointerXs)},
             FALSE, FALSE)

NextClick ==
    \/ AdvanceTime
    \/ AnimationFrame
    \/ Toggle
    \/ TouchEnd
    \/ Click

SpecClick == InitClick /\ [][NextClick]_vars

\* The burst of one click: FieldBurst stands for the 40 of the field styles,
\* SnowBurst for the 35 of snow, TrailBurst for the 20 discs and EmojiBurst
\* for the 10 glyphs of the trail.
ClickBurst ==
    LET cfg == self.config
    IN  CASE ~self.isActive -> 0
          [] FieldMode /\ ~cfg.fieldClickExplosion -> 0
          [] TrailMode /\ ~cfg.sprinkleClickExplosion -> 0
          [] FieldMode /\ cfg.fieldParticleStyle = "fireworks" ->
                 2 * Min(cfg.fieldParticleCount \div 4, 60)
          [] FieldMode /\ cfg.fieldParticleStyle = "snow" -> SnowBurst
          [] FieldMode -> FieldBurst
          [] TrailMode /\ cfg.sprinkleStyle = "emoji" -> EmojiBurst
          [] OTHER -> TrailBurst

\* C26: a click or a tap acquires entities only in an Active session whose
\* mode has its click-explosion flag on, and then exactly the burst of the
\* mode and style, every one explosion-flagged and at its full life, after
\* the entities that were active, which stay; the rockets in flight and the
\* launch timer are as they were.
C26_ClickBurst ==
    [][(Click \/ TouchEnd) =>
        LET old == Pool.activeParticles
            new == Pool.activeParticles'
            objs == Pool.objects'
        IN  /\ Len(new) = Len(old) + ClickBurst
            /\ SubSeq(new, 1, Len(old)) = old
            /\ \A i \in 1..Len(old) : objs[old[i]] = Pool.objects[old[i]]
            /\ \A i \in (Len(old) + 1)..Len(new) :
                    /\ objs[new[i]].isExplosion
                    /\ objs[new[i]].explosionLife = ExplosionLifeInit
            /\ self.rockets' = self.rockets
            /\ self.rocketLaunchTimer' = self.rocketLaunchTimer
            /\ self.isActive' = self.isActive]_vars

\* A click in the fireworks style, one tick after the start, has detonated
\* its two sparkles and left the launch timer running.
C26_Witness ==
    /\ FireworksStyle /\ self.isActive /\ self.config.fieldClickExplosion
    /\ self.rocketLaunchTimer = 1
    /\ getActiveCount(Pool) = 2
    /\ \A i \in 1..2 :
            /\ Pool.objects[Pool.activeParticles[i]].isExplosion
            /\ Pool.objects[Pool.activeParticles[i]].explosionLife = ExplosionLifeInit

(***************************************************************************)
(* The toggle.                                                             *)
(***************************************************************************)
\* Every toggle flips the Active flag, stores the new value, presses or
\* releases the button accordingly and announces the new state.
ToggleFlips ==
    [][Toggle =>
        /\ self'.isActive = ~self.isActive
        /\ browser'.sessionStorage = BoolStr(self'.isActive)
        /\ browser'.ariaPressed = BoolStr(self'.isActive)
        /\ browser'.announcement =
                IF self'.isActive THEN "enabled" ELSE "disabled"]_vars

\* Since the first toggle the store and the button agree with the flag.
ToggledAgrees ==
    (browser.buttonMounted /\ browser.announcement # "") =>
        /\ browser.sessionStorage = BoolStr(self.isActive)
        /\ browser.ariaPressed = BoolStr(self.isActive)

\* The worlds two consecutive toggles can lead to from here.
ToggledTwice ==
    UNION {{toggle(W2) : W2 \in Seeded(Begin(toggle(W1)))} :
                W1 \in Seeded(Begin(World))}

\* C27 as stated: every toggle flips, stores, presses and announces; after
\* a toggle the store and the button agree with the flag; and two
\* consecutive toggles restore the Active flag and the stored preference.
C27_ToggleRoundTrip ==
    /\ ToggleFlips
    /\ [](ToggledAgrees)
    /\ [](browser.buttonMounted =>
            \A W \in ToggledTwice :
                /\ W.self.isActive = self.isActive
                /\ W.browser.sessionStorage = browser.sessionStorage)

\* C27 amended: two consecutive toggles restore the Active flag, and the
\* stored preference when it agreed with the flag before them, as it does
\* after any toggle; before the first toggle of a session it need not (a
\* reduced-motion session starts inactive over a stored 'true', a stored
\* value other than 'true' and 'false' starts the session inactive), and
\* the two toggles then leave the flag's value in the store.
C27_ToggleRoundTripSinceAgreed ==
    /\ ToggleFlips
    /\ [](ToggledAgrees)
    /\ [](browser.buttonMounted =>
            \A W \in ToggledTwice :
                /\ W.self.isActive = self.isActive
                /\ W.browser.sessionStorage = BoolStr(self.isActive)
                /\ W.browser.ariaPressed = BoolStr(self.isActive))

\* Two toggles in a reduced-motion session that found 'true' stored: the
\* session is inactive as at its start, and the store now holds 'false'.
C27_Witness ==
    /\ ghost.load.recorded /\ ghost.load.prefersReducedMotion
    /\ ghost.load.stored = "true"
    /\ browser.announcement = "disabled"
    /\ ~self.isActive
    /\ browser.sessionStorage = "false"
    /\ browser.ariaPressed = "false"

(***************************************************************************)
(* The order of the working set.                                           *)
(***************************************************************************)
\* s holds entries of t only, in the order they have in t.
RECURSIVE InOrderWithin(_, _)
InOrderWithin(s, t) ==
    IF s = <<>> THEN TRUE
    ELSE IF t = <<>> THEN FALSE
    ELSE IF Head(s) = Head(t) THEN InOrderWithin(Tail(s), Tail(t))
    ELSE InOrderWithin(s, Tail(t))

\* The record the next acquire() hands out: the top of the free list, or a
\* new record when the free list is empty.
NextAcquired(P) ==
    IF Len(P.pool) > 0 THEN Last(P.pool) ELSE Len(P.objects) + 1

\* C28: the working set is in acquire order.  A spawning move below the
\* trail cap appends the record it acquires, which is a new one only when
\* the free list is empty; at the cap it removes the first, oldest, entry,
\* keeps the others in their order and appends the record it acquires (the
\* one just released).  A click or tap appends its burst after the entries
\* that were there, allocating only what the free list cannot supply.  A
\* tick and a toggle only remove entries and keep the order of the rest.
C28_ActiveInAcquireOrder ==
    /\ [][(MouseMove \/ TouchMove) =>
            \/ Pool' = Pool
            \/ /\ getActiveCount(Pool) < self.config.maxParticles
               /\ getActive(Pool') = Append(getActive(Pool), NextAcquired(Pool))
               /\ Len(Pool.objects') =
                    Len(Pool.objects) + (IF Len(Pool.pool) > 0 THEN 0 ELSE 1)
            \/ /\ getActiveCount(Pool) >= self.config.maxParticles
               /\ getActive(Pool') =
                    Append(Tail(getActive(Pool)), Head(getActive(Pool)))
               /\ Len(Pool.objects') = Len(Pool.objects)]_vars
    /\ [][(Click \/ TouchEnd) =>
            /\ SubSeq(getActive(Pool'), 1, getActiveCount(Pool)) = getActive(Pool)
            /\ Len(Pool.objects') - Len(Pool.objects) =
                 Max(0, getActiveCount(Pool') - getActiveCount(Pool) - Len(Pool.pool))]_vars
    /\ [][(AnimationFrame \/ Toggle) =>
            InOrderWithin(getActive(Pool'), getActive(Pool))]_vars

\* A move at the cap, over two trail entities followed by a click burst,
\* has evicted the first: the later trail entity now leads, the burst
\* entity follows and the new trail entity is last.
C28_Witness ==
    /\ TrailMode /\ self.isActive
    /\ getActiveCount(Pool) = 3
    /\ ~Pool.objects[getActive(Pool)[1]].isExplosion
    /\ Pool.objects[getActive(Pool)[2]].isExplosion
    /\ Pool.objects[getActive(Pool)[2]].explosionLife = ExplosionLifeInit
    /\ Pool.objects[getActive(Pool)[3]].maxLife = self.config.animationDuration
    /\ Pool.objects[getActive(Pool)[3]].birthTime = browser.now
    /\ browser.now = FRAME_DURATION

(***************************************************************************)
(* The physics loops: every style and the trail, with click bursts of      *)
(* different ages among the ambient entities, so that a tick releases some *)
(* entities while it walks past others.                                    *)
(***************************************************************************)
MaxPhysicsFrames == 3

PhysicsInstants == {k * FRAME_DURATION : k \in 0..MaxPhysicsFrames}

PhysicsConfigs ==
    {Config("particle-field", st, TRUE, "particles", FALSE, FALSE) : st \in FieldStyles}
    \cup {[Config("sprinkle-trail", "glitter", FALSE, "particles", TRUE, FALSE)
            EXCEPT !.maxParticles = MaxTrailParticles]}

InitPhysics ==
    PageLoad(PhysicsConfigs,
             {Environment(PhysicsInstants, {FRAME_DURATION}, {0, 12})},
             FALSE, FALSE)

NextPhysics ==
    \/ AdvanceTime
    \/ AnimationFrame
    \/ MouseMove
    \/ Click

SpecPhysics == InitPhysics /\ [][NextPhysics]_vars

\* The entity record id after the step, given that a burst entity o has
\* been processed once: one tick of its life is gone; it is released when
\* none is left (in the fireworks style also once it has fallen out of
\* view) and stays otherwise.
BurstProcessedOnce(id, o) ==
    /\ Pool.objects'[id].explosionLife = o.explosionLife - 1
    /\ Pool.objects'[id].active = (id \in Range(getActive(Pool')))
    /\ o.explosionLife - 1 <= 0 => ~Pool.objects'[id].active
    /\ (o.explosionLife - 1 > 0 /\ ~FireworksStyle) => Pool.objects'[id].active

\* The same for the trail entity o at index i of the working set: its
\* opacity is the one of its age and of the rank it had when the tick
\* began; it is released when it is spent, faded or far off the screen.
TrailProcessedOnce(id, o, i) ==
    LET age   == browser.now - o.birthTime
        count == getActiveCount(Pool)
    IN  /\ Pool.objects'[id].opacity =
                TrailOpacity(self.config, age, o.maxLife, i, count)
        /\ Pool.objects'[id].active = (id \in Range(getActive(Pool')))
        /\ Pool.objects'[id].active =
                ~(\/ age >= o.maxLife
                  \/ TrailFaded(self.config, age, o.maxLife, i, count)
                  \/ Abs(o.x) > self.logicalWidth * 2
                  \/ Abs(o.y) > self.logicalHeight * 2)

\* The same for a flake or a leaf o: it stays, and it has fallen by its new
\* velocity, once, or it has respawned above the top edge.
FallProcessedOnce(id, o) ==
    LET vy1    == IF o.vy < o.fallSpeed THEN o.vy + Gravity ELSE o.vy
        margin == FallStyle(self.config.fieldParticleStyle).margin
        now    == Pool.objects'[id]
    IN  /\ now.active /\ id \in Range(getActive(Pool'))
        /\ \/ /\ now.y = o.y + now.vy
              /\ now.vy <= vy1 /\ now.vy >= vy1 - RandomDen
           \/ /\ o.y + vy1 > self.logicalHeight + o.size * margin
              /\ now.y <= 0 - o.size * margin

C30_TrailEntityNotExplosion ==
    /\ [][((MouseMove \/ TouchMove) /\ Pool' # Pool) =>
            ~Pool.objects'[Last(getActive(Pool'))].isExplosion]_vars
    /\ [](TrailMode =>
            \A id \in Range(getActive(Pool)) :
                Pool.objects[id].maxLife > 0 => ~Pool.objects[id].isExplosion)

(***************************************************************************)
(* The ambient field.                                                      *)
(***************************************************************************)
\* The active entities that are not part of a burst.
Ambient ==
    {i \in 1..getActiveCount(Pool) : ~Pool.objects[getActive(Pool)[i]].isExplosion}

AmbientStyle == FieldMode /\ self.config.fieldParticleStyle # "fireworks"

\* C31: while the session is Active in a field style other than fireworks,
\* and until destroy() tears it down, the active entities that are not
\* explosion-flagged number fieldParticleCount; ticks, clicks and taps,
\* pointer and touch events and visibility changes leave every one of them
\* in the working set, and only a toggle or the debounced resize releases
\* one.
C31_AmbientCount ==
    /\ []((self.isActive /\ AmbientStyle /\ ~ghost.destroyed) =>
            Cardinality(Ambient) = self.config.fieldParticleCount)
    /\ [][(AmbientStyle /\ ~(Toggle \/ DebounceFire \/ Destroy)) =>
            \A i \in Ambient :
                /\ getActive(Pool)[i] \in Range(getActive(Pool'))
                /\ ~Pool.objects'[getActive(Pool)[i]].isExplosion]_vars

\* A snow tick has released a spent burst flake and kept the ambient one.
C31_Witness ==
    /\ self.isActive /\ AmbientStyle /\ ~ghost.destroyed
    /\ self.config.fieldParticleStyle = "snow"
    /\ Updates(ghost.log) # {}
    /\ getActiveCount(Pool) = 1
    /\ Cardinality(Ambient) = 1
    /\ \E id \in Range(Pool.pool) :
            Pool.objects[id].isExplosion /\ Pool.objects[id].explosionLife = 0

(***************************************************************************)
(* The fade of the trail: a trail of up to three entities that live four   *)
(* frame intervals, spawned at different instants or at the same one, so   *)
(* that a tick releases the oldest below two that fade by their rank.      *)
(***************************************************************************)
MaxRankFrames == 5

RankCap == 3

RankLifeFrames == 4

RankInstants == {k * FRAME_DURATION : k \in 0..MaxRankFrames}

RankConfigs ==
    {[Config("sprinkle-trail", "glitter", FALSE, "particles", FALSE, FALSE)
        EXCEPT !.maxParticles = RankCap,
               !.animationDuration = RankLifeFrames * FRAME_DURATION]}

InitRank ==
    PageLoad(RankConfigs,
             {Environment(RankInstants, {FRAME_DURATION}, {0, 12})},
             FALSE, FALSE)

NextRank ==
    \/ AdvanceTime
    \/ AnimationFrame
    \/ MouseMove

SpecRank == InitRank /\ [][NextRank]_vars

\* particleOpacity x min(max(0, 1 - age / maxLife), rank / count), rounded
\* down to the opacity unit.
RankedOpacity(o, rank, count) ==
    LET po  == self.config.particleOpacity
        age == browser.now - o.birthTime
    IN  Min(IF age >= o.maxLife THEN 0 ELSE (po * (o.maxLife - age)) \div o.maxLife,
            IF count > 1 THEN (po * rank) \div count ELSE po)

\* The trail entities are no brighter than the ones acquired after them.
DimmestFirst ==
    \A i, j \in 1..getActiveCount(Pool) :
        (/\ i < j
         /\ ~Pool.objects[getActive(Pool)[i]].isExplosion
         /\ ~Pool.objects[getActive(Pool)[j]].isExplosion) =>
            Pool.objects[getActive(Pool)[i]].opacity
                <= Pool.objects[getActive(Pool)[j]].opacity

\* C32 as stated: after a trail physics update every trail entity has the
\* opacity of its age and of its rank (index + 1) / count in the active
\* sequence as the update leaves it, and the trail is dimmest first.
C32_OpacityByRank ==
    /\ (TrailMode /\ Updates(ghost.log) # {}) =>
            \A i \in 1..getActiveCount(Pool) :
                LET o == Pool.objects[getActive(Pool)[i]]
                IN  ~o.isExplosion =>
                        o.opacity = RankedOpacity(o, i, getActiveCount(Pool))
    /\ TrailMode => DimmestFirst

\* C32 amended: the rank and the count are the ones of the active sequence
\* as the update found it; the entities the update releases still count,
\* so a survivor is brighter than its rank among the survivors alone would
\* make it.  The trail is dimmest first in every state.
C32_OpacityByRankAtStart ==
    /\ [](TrailMode => DimmestFirst)
    /\ [][(AnimationFrame /\ TrailMode /\ Updates(ghost'.log) # {}) =>
            \A i \in 1..getActiveCount(Pool) :
                LET id == getActive(Pool)[i]
                    o  == Pool.objects[id]
                IN  ~o.isExplosion =>
                        Pool.objects'[id].opacity =
                            RankedOpacity(o, i, getActiveCount(Pool))]_vars

\* A tick has released the oldest of three trail entities; the two that
\* are left, a frame interval old, have the opacities of ranks 2 and 3 of
\* three: 2/3 and 3/4 (their life ratio) of the configured opacity.
C32_Witness ==
    /\ TrailMode /\ self.isActive
    /\ Updates(ghost.log) # {}
    /\ getActiveCount(Pool) = 2
    /\ \A i \in 1..2 :
            browser.now - Pool.objects[getActive(Pool)[i]].birthTime = FRAME_DURATION
    /\ Pool.objects[getActive(Pool)[1]].opacity = (self.config.particleOpacity * 2) \div 3
    /\ Pool.objects[getActive(Pool)[2]].opacity = (self.config.particleOpacity * 3) \div 4

(***************************************************************************)
(* Redraws.                                                                *)
(***************************************************************************)
\* The session but for the handle of the frame it has requested.
Simulation(S) == [S EXCEPT !.animationFrameId = 0]

\* C33: a tick that only redraws leaves every entity record, the working
\* set and the free list, the rockets and the launch timer, the time
\* reference and the canvas opacity as they were; and each of the three
\* draw routines, run in any reachable state, leaves the session as it is.
C33_RedrawChangesNothing ==
    /\ [][(AnimationFrame /\ Updates(ghost'.log) = {}) =>
            Simulation(self') = Simulation(self)]_vars
    /\ [](self.ctx =>
            /\ drawFieldParticles(World).self = self
            /\ drawFireworksParticles(World).self = self
            /\ drawSprinkleParticles(World).self = self)

\* A redraw-only tick over a glitter field with a burst entity half spent.
C33_Witness ==
    /\ FieldMode /\ self.config.fieldParticleStyle = "glitter"
    /\ self.isActive
    /\ ghost.log = <<"draw">>
    /\ browser.now - self.lastUpdateTime < FRAME_DURATION
    /\ getActiveCount(Pool) = 2
    /\ \E id \in Range(getActive(Pool)) :
            /\ Pool.objects[id].isExplosion
            /\ Pool.objects[id].explosionLife = ExplosionLifeInit - 1
            /\ Pool.objects[id].opacity > 0

(***************************************************************************)
(* The canvas opacity.                                                     *)
(***************************************************************************)
\* C34: the opacity target is 0.3 or 1 and the canvas opacity lies between
\* them; the opacity changes only in a tick that runs a physics update, and
\* then it ends nearer the target of that tick; while the target is 0.3,
\* before destroy(), the session's debounce timer is pending, and the
\* callback of that timer sets the target to 1.
C34_OpacityWithinRange ==
    /\ [](/\ self.targetOpacity \in {DIM_OPACITY, OpacityScale}
          /\ self.canvasOpacity >= DIM_OPACITY
          /\ self.canvasOpacity <= OpacityScale
          /\ (self.targetOpacity = DIM_OPACITY /\ ~ghost.destroyed) =>
                /\ self.resizeDebounceTimer # 0
                /\ PendingDebounce # {})
    /\ [][self'.canvasOpacity # self.canvasOpacity =>
            /\ AnimationFrame
            /\ Updates(ghost'.log) # {}
            /\ self'.targetOpacity = self.targetOpacity
            /\ Abs(self.targetOpacity - self'.canvasOpacity)
                    < Abs(self.targetOpacity - self.canvasOpacity)]_vars
    /\ [][DebounceFire => self'.targetOpacity = OpacityScale]_vars

\* One physics update into a dim: the canvas is 5% of the way from 1 to
\* 0.3 and the debounce timer is still pending.
C34_Witness ==
    /\ self.targetOpacity = DIM_OPACITY /\ self.isFading
    /\ self.canvasOpacity =
            OpacityScale - ((OpacityScale - DIM_OPACITY) * 5) \div 100
    /\ Updates(ghost.log) # {}
    /\ PendingDebounce # {}
    /\ ~ghost.destroyed

(***************************************************************************)
(* Errors of destroy().                                                    *)
(***************************************************************************)
\* C35: destroy() raises no error, whatever the state of the session it is
\* called on: active or not, visible or hidden, resizing or settled, and
\* also when init() returned at once because effects are disabled on
\* mobile.
C35_DestroyNeverThrows == ghost.destroyed => ~ghost.threw

(***************************************************************************)
(* The stored preference.                                                  *)
(***************************************************************************)
\* C36: until the first toggle the store holds the preference the page
\* load found; when it found none, the store holds the enabled-by-default
\* flag, also under a reduced-motion preference, which only clears the
\* Active flag (a skipped init() writes nothing); after that only a toggle
\* changes the store.
C36_StoreKeptByConstruction ==
    /\ []((ghost.load.recorded /\ browser.announcement = "") =>
            browser.sessionStorage =
                IF ghost.load.stored # "null" THEN ghost.load.stored
                ELSE IF self.config.isMobile /\ ghost.load.disableOnMobile
                THEN "null"
                ELSE BoolStr(ghost.load.enabledByDefault))
    /\ [][browser'.sessionStorage # browser.sessionStorage => Toggle]_vars

\* A reduced-motion session that found no preference and is enabled by
\* default: the store holds 'true', the session is inactive.
C36_Witness ==
    /\ ghost.load.recorded /\ browser.announcement = ""
    /\ ghost.load.prefersReducedMotion
    /\ ghost.load.stored = "null" /\ ghost.load.enabledByDefault
    /\ browser.listeners = Listeners
    /\ browser.sessionStorage = "true"
    /\ ~self.isActive
    /\ browser.now = FRAME_DURATION

(***************************************************************************)
(* The configured strengths: every tenth from 0 to 1, or nothing, in each  *)
(* of the two data attributes of a glitter field.                          *)
(***************************************************************************)
StrengthSteps == 10

StrengthAttributes == {<<>>} \cup {<<10 * k>> : k \in 0..StrengthSteps}

StrengthConfigs ==
    {[Config("particle-field", "glitter", TRUE, "particles", FALSE, FALSE)
        EXCEPT !.dataset = d,
               !.fieldMouseAttraction = fieldMouseAttractionFrom(d),
               !.fieldSpreadStrength = fieldSpreadStrengthFrom(d)] :
        d \in [fieldMouseAttraction : StrengthAttributes,
               fieldSpreadStrength  : StrengthAttributes,
               fieldParticleStyle   : {"glitter"}]}

InitStrength ==
    PageLoad(StrengthConfigs,
             {Environment({0, FRAME_DURATION}, {FRAME_DURATION}, PointerXs)},
             FALSE, FALSE)

NextStrength ==
    \/ AdvanceTime
    \/ AnimationFrame

SpecStrength == InitStrength /\ [][NextStrength]_vars

\* C37: the strength the engine reads is the configured one, for every
\* configured mouse attraction and spread strength from 0 to 1, 0 included;
\* the defaults 0.5 and 0.3 stand in only for a strength that is not
\* configured.
C37_StrengthAsConfigured ==
    LET d == self.config.dataset
    IN  /\ self.config.fieldMouseAttraction =
                IF d.fieldMouseAttraction = <<>> THEN DEFAULT_MOUSE_ATTRACTION
                ELSE d.fieldMouseAttraction[1]
        /\ self.config.fieldSpreadStrength =
                IF d.fieldSpreadStrength = <<>> THEN DEFAULT_SPREAD_STRENGTH
                ELSE d.fieldSpreadStrength[1]


(***************************************************************************)
(* The editor, the host and the page.  The editor holds the block's        *)
(* attributes and changes them through its controls; on a view of the      *)
(* page the host's render callback validates them and writes the block's   *)
(* data attributes, from which the constructor reads the configuration.    *)
(* Strengths are in hundredths.                                            *)
(***************************************************************************)
Space == " "

RECURSIVE ltrim(_)
ltrim(text) ==
    IF text # <<>> /\ Head(text) = Space THEN ltrim(Tail(text)) ELSE text

RECURSIVE rtrim(_)
rtrim(text) ==
    IF text # <<>> /\ text[Len(text)] = Space
    THEN rtrim(SubSeq(text, 1, Len(text) - 1)) ELSE text

trim(text) == rtrim(ltrim(text))

glitter_bomb_sanitize_enum(value, allowed, default) ==
    LET trimmed == trim(value)
    IN  IF trimmed \in allowed THEN trimmed ELSE default

\* The values are finite numbers already.
glitter_bomb_sanitize_number(value, min, max, default) ==
    IF value < min \/ value > max THEN default ELSE value

\* The styles the render callback lets through.
AllowedFieldStyles ==
    {Text("glitter"), Text("pride-confetti"), Text("love-bomb"), Text("snow")}

\* esc_attr() of a validated style: its name, which holds nothing to escape.
esc_attr(text) == text[1]

\* The render callback: the data attributes of the block for attributes `a`.
render(a) ==
    [fieldMouseAttraction |->
        <<glitter_bomb_sanitize_number(a.fieldMouseAttraction, 0, 100,
                                       DEFAULT_MOUSE_ATTRACTION)>>,
     fieldSpreadStrength |->
        <<glitter_bomb_sanitize_number(a.fieldSpreadStrength, 0, 100,
                                       DEFAULT_SPREAD_STRENGTH)>>,
     fieldParticleStyle |->
        esc_attr(glitter_bomb_sanitize_enum(a.fieldParticleStyle,
                                            AllowedFieldStyles,
                                            Text("glitter")))]

\* The configuration the constructor reads from the data attributes of a
\* particle-field block.
configFrom(dataset) ==
    [Config("particle-field", fieldParticleStyleFrom(dataset), TRUE,
            "particles", FALSE, FALSE)
        EXCEPT !.dataset = dataset,
               !.fieldMouseAttraction = fieldMouseAttractionFrom(dataset),
               !.fieldSpreadStrength = fieldSpreadStrengthFrom(dataset)]

\* The strength the Mouse Attraction toggle sets when it is turned on.
ENABLED_MOUSE_ATTRACTION == 50

\* Mouse Attraction toggle, onChange:
\* setAttributes( { fieldMouseAttraction: value ? 0.5 : 0 } )
onChangeMouseAttraction_fullStrength(a, value) ==
    [a EXCEPT !.fieldMouseAttraction = IF value THEN 100 ELSE 0]

onChangeMouseAttraction(a, value) ==
    [a EXCEPT !.fieldMouseAttraction =
        IF value THEN ENABLED_MOUSE_ATTRACTION ELSE 0]

\* Attraction Strength range, onChange.
onChangeAttractionStrength(a, value) ==
    [a EXCEPT !.fieldMouseAttraction = value]

\* Spread Strength range, onChange.
onChangeSpreadStrength(a, value) ==
    [a EXCEPT !.fieldSpreadStrength = value]

\* Particle Style select, onChange (the palette it also sets is not part of
\* the attributes kept here).
onChangeParticleStyle(a, value) ==
    [a EXCEPT !.fieldParticleStyle = Text(value)]

\* The six styles the Particle Style select offers.
StyleOptions ==
    {"glitter", "pride-confetti", "love-bomb", "snow", "fireworks",
     "autumn-leaves"}

\* The strengths the ranges are moved to.
AttractionChoices == {10, 80}

SpreadChoices == {0, 100}

\* The Mouse Attraction toggle shows checked while the strength is above 0; a
\* click hands onChange the opposite.
ToggleMouseAttraction ==
    /\ attributes' =
         onChangeMouseAttraction(attributes, ~(attributes.fieldMouseAttraction > 0))
    /\ UNCHANGED <<self, browser, ghost, env>>

\* The Attraction Strength range is shown only while the strength is above 0.
SetAttractionStrength ==
    /\ attributes.fieldMouseAttraction > 0
    /\ \E value \in AttractionChoices :
         attributes' = onChangeAttractionStrength(attributes, value)
    /\ UNCHANGED <<self, browser, ghost, env>>

SetSpreadStrength ==
    /\ \E value \in SpreadChoices :
         attributes' = onChangeSpreadStrength(attributes, value)
    /\ UNCHANGED <<self, browser, ghost, env>>

SelectParticleStyle ==
    /\ \E value \in StyleOptions :
         attributes' = onChangeParticleStyle(attributes, value)
    /\ UNCHANGED <<self, browser, ghost, env>>

\* A visitor opens the page of the block as the editor holds it: the host
\* renders it and the script constructs the session on it.
View ==
    \E W \in Seeded(Constructed(configFrom(render(attributes)), FALSE,
                                "null", 0)) :
        Step(init(W, TRUE, FALSE, FALSE))

\* Attributes of a block as the editor may find them in a post: the block as
\* inserted, and markup written by hand with a padded or an unknown style.
SavedAttributes ==
    {[DefaultAttributes EXCEPT !.fieldParticleStyle = t] :
        t \in {Text("glitter"), <<Space, "snow", Space>>, Text("sparkle")}}

InitEditor ==
    \E a \in SavedAttributes :
        /\ Loaded({configFrom(render(a))},
                  {Environment({0, FRAME_DURATION}, {FRAME_DURATION}, PointerXs)},
                  FALSE, FALSE)
        /\ attributes = a

NextEditor ==
    \/ ToggleMouseAttraction
    \/ SetAttractionStrength
    \/ SetSpreadStrength
    \/ SelectParticleStyle
    \/ View
    \/ AdvanceTime
    \/ AnimationFrame

SpecEditor == InitEditor /\ [][NextEditor]_vars


\* The attributes after the Mouse Attraction toggle is turned off and back
\* on.
OffThenOn == onChangeMouseAttraction(onChangeMouseAttraction(attributes, FALSE), TRUE)

\* C38: in the editor, turning the Mouse Attraction toggle off sets the
\* strength to 0 and turning it on sets it to exactly 0.5; off and back on
\* leaves 0.5 whatever strength was configured, so it restores the
\* attributes only when the strength was 0.5.
C38_ToggleDiscardsStrength ==
    /\ [][ToggleMouseAttraction =>
            /\ attributes.fieldMouseAttraction > 0
                    => attributes'.fieldMouseAttraction = 0
            /\ attributes.fieldMouseAttraction = 0
                    => attributes'.fieldMouseAttraction = 50
            /\ \A field \in {"fieldSpreadStrength", "fieldParticleStyle"} :
                    attributes'[field] = attributes[field]]_vars
    /\ [](attributes.fieldMouseAttraction > 0 =>
            /\ onChangeMouseAttraction(attributes, FALSE).fieldMouseAttraction = 0
            /\ OffThenOn.fieldMouseAttraction = 50
            /\ (OffThenOn = attributes) <=> (attributes.fieldMouseAttraction = 50))

\* The page was last viewed with a strength of 0.8 and the editor now holds
\* 0.5: the ranges offer no 0.5, so the toggle went off and back on.
C38_Witness ==
    /\ self.config.fieldMouseAttraction = 80
    /\ attributes.fieldMouseAttraction = 50
    /\ OffThenOn = attributes


\* C39: each of the six field styles held by the block's attributes passes
\* the host's validation unchanged and is the fieldParticleStyle of the
\* session constructed on the page; a value outside the six, surrounding
\* blanks aside, is replaced by 'glitter'.
C39_StyleReachesEngine ==
    [][View =>
        /\ \A style \in StyleOptions :
              attributes.fieldParticleStyle = Text(style)
                  => /\ render(attributes).fieldParticleStyle = style
                     /\ self'.config.fieldParticleStyle = style
        /\ trim(attributes.fieldParticleStyle) \notin {Text(style) : style \in StyleOptions}
              => self'.config.fieldParticleStyle = "glitter"]_vars

====
